---------------------------- MODULE Spec2Model ----------------------------
(***************************************************************************)
(* Model of the sleep-blanket MQTT ingestion back end                      *)
(* (mqtt_receiver_mysql.py, database_manager.py, alarm_config.py,          *)
(* server_config.py) and of the request statistics of its query API        *)
(* (flask_api_server.py).                                                  *)
(*                                                                         *)
(* Text is modelled character by character: a Python str is a sequence of  *)
(* one-character strings, so that the regular expression of the topic      *)
(* resolver, the substring tests, split / strip / lower / isdigit and the  *)
(* numeric conversions are computed the way the interpreter computes them. *)
(* A Python value is a tagged record (PyNone, PyStr, PyInt, PyBool,        *)
(* PyFloat); a dict is a function from keys (text) to Python values.       *)
(***************************************************************************)
EXTENDS Integers, Sequences, FiniteSets, TLC

(***************************************************************************)
(* Bounds of the model.                                                    *)
(***************************************************************************)
\* messages delivered to the receiver in one run
MaxMsgs == 2
\* seconds of wall-clock time that the clock may advance to
MaxTime == 60
\* characters of the {segment} part of a generated topic
MaxSegLen == 2
\* the longest text put before and after a literal path in a probed topic
MaxAffixLen == 2
\* the most KEY:VALUE tokens of a delimited payload
MaxTokens == 2
\* the most requests to the query API that change its statistics
MaxRequests == 4

(***************************************************************************)
(* Text literals of the source.                                            *)
(***************************************************************************)
\* 'sleep_blanket/' and '/data': the literal parts of the pattern
\* r'sleep_blanket/([^/]+)/data'
RE_PREFIX == <<"s","l","e","e","p","_","b","l","a","n","k","e","t","/">>
RE_SUFFIX == <<"/","d","a","t","a">>
\* 'device/sleep_blanket'
DEVICE_SLEEP_BLANKET ==
    <<"d","e","v","i","c","e","/","s","l","e","e","p","_","b","l","a","n","k","e","t">>
\* 'sensors/sleep_monitor'
SENSORS_SLEEP_MONITOR ==
    <<"s","e","n","s","o","r","s","/","s","l","e","e","p","_","m","o","n","i","t","o","r">>
\* 'GENERAL_DEVICE'
GENERAL_DEVICE == <<"G","E","N","E","R","A","L","_","D","E","V","I","C","E">>
\* 'MONITOR_SENSOR'
MONITOR_SENSOR == <<"M","O","N","I","T","O","R","_","S","E","N","S","O","R">>
\* 'SB067', the one entry of ALARM_CONFIG['ignored_devices']
SB067 == <<"S","B","0","6","7">>
\* 'N/A'
N_A == <<"N","/","A">>
\* ', ', the separator of payload.split(', ')
COMMA_SPACE == <<","," ">>
\* '_value', the suffix of f'{key}_value'
VALUE_SUFFIX == <<"_","v","a","l","u","e">>
\* keys of the delimited format, after lower()
K_raw == <<"r","a","w">>
K_rms == <<"r","m","s">>
K_th == <<"t","h">>
K_state == <<"s","t","a","t","e">>
K_move == <<"m","o","v","e">>
K_connected == <<"c","o","n","n","e","c","t","e","d">>
K_alarm == <<"a","l","a","r","m">>
\* keys of data_dict
F_raw_value == <<"r","a","w","_","v","a","l","u","e">>
F_rms_value == <<"r","m","s","_","v","a","l","u","e">>
F_threshold_value ==
    <<"t","h","r","e","s","h","o","l","d","_","v","a","l","u","e">>
F_state == <<"s","t","a","t","e">>
F_movement_count == <<"m","o","v","e","m","e","n","t","_","c","o","u","n","t">>
F_is_connected == <<"i","s","_","c","o","n","n","e","c","t","e","d">>
F_is_alarm == <<"i","s","_","a","l","a","r","m">>
F_timestamp == <<"t","i","m","e","s","t","a","m","p">>

(***************************************************************************)
(* Python values.                                                          *)
(***************************************************************************)
PyNone == [t |-> "none"]
PyStr(s) == [t |-> "str", v |-> s]
PyInt(n) == [t |-> "int", v |-> n]
PyBool(b) == [t |-> "bool", v |-> b]
\* a float num / 10^scale, num not a multiple of 10 unless scale = 0
PyFloat(num, scale) == [t |-> "float", num |-> num, scale |-> scale]
\* a datetime, in whole seconds since the receiver was constructed
PyTime(s) == [t |-> "datetime", v |-> s]
\* a dict: d is a function from keys to Python values
PyDict(d) == [t |-> "dict", v |-> d]
EmptyDict == [k \in {} |-> PyNone]

\* Truthy with a dict tested by `is not None` instead of by its truth value
Truthy_DictIsNotNone(x) ==
    CASE x.t = "none" -> FALSE
      [] x.t = "str" -> Len(x.v) > 0
      [] x.t = "int" -> x.v # 0
      [] x.t = "bool" -> x.v
      [] x.t = "float" -> x.num # 0
      [] OTHER -> TRUE

\* Python's truth value of x (None, '', {}, 0, False are false)
Truthy(x) ==
    CASE x.t = "none" -> FALSE
      [] x.t = "str" -> Len(x.v) > 0
      [] x.t = "dict" -> DOMAIN x.v # {}
      [] x.t = "int" -> x.v # 0
      [] x.t = "bool" -> x.v
      [] x.t = "float" -> x.num # 0
      [] OTHER -> TRUE

\* PyEqualsOne with a comparison that also compares the types
PyEqualsOne_IntOnly(x) == x.t = "int" /\ x.v = 1

\* Python's x == 1 (True == 1 and 1.0 == 1 hold, '1' == 1 does not)
PyEqualsOne(x) ==
    CASE x.t = "int" -> x.v = 1
      [] x.t = "bool" -> x.v
      [] x.t = "float" -> x.num = 1 /\ x.scale = 0
      [] OTHER -> FALSE

\* dict.get(key) and dict.get(key, default)
DictGet(d, key, default) == IF key \in DOMAIN d THEN d[key] ELSE default
\* d.setdefault(key, value): a key the dict already has keeps its value
DictSet_KeepsExisting(d, key, value) ==
    [k \in DOMAIN d \cup {key} |-> IF k \in DOMAIN d THEN d[k] ELSE value]

\* d[key] = value
DictSet(d, key, value) ==
    [k \in DOMAIN d \cup {key} |-> IF k = key THEN value ELSE d[k]]

(***************************************************************************)
(* Evaluation.  With(e, F) is F(e) with e evaluated once: the value of e   *)
(* is bound the way a Python assignment binds it.                          *)
(***************************************************************************)
With(e, F(_)) == CHOOSE r \in {F(x) : x \in {e}} : TRUE

SetMax(S) == With(S, LAMBDA T : CHOOSE x \in T : \A y \in T : y <= x)
SetMin(S) == With(S, LAMBDA T : CHOOSE x \in T : \A y \in T : x <= y)

(***************************************************************************)
(* str operations.                                                         *)
(***************************************************************************)
\* s[i-1:].startswith(p), positions counted from 1
StartsWithAt(s, p, i) ==
    /\ i + Len(p) - 1 <= Len(s)
    /\ SubSeq(s, i, i + Len(p) - 1) = p

\* `in` taken as equality of the whole text
Contains_WholeText(s, p) == s = p

\* p in s
Contains(s, p) == \E i \in 1..(Len(s) + 1) : StartsWithAt(s, p, i)

(***************************************************************************)
(* extract_device_id: re.search(r'sleep_blanket/([^/]+)/data', topic),     *)
(* then the two substring rules.                                           *)
(***************************************************************************)
\* the number of characters other than '/' from position j on
NonSlashRun(s, j) ==
    LET Slashes == {k \in j..Len(s) : s[k] = "/"}
    IN IF Slashes = {} THEN Len(s) + 1 - j ELSE SetMin(Slashes) - j

\* The length of group 1 when the pattern matches at position i, 0 when it
\* does not: [^/]+ is greedy and gives characters back until '/data' follows.
GroupLenAt(s, i) ==
    IF ~StartsWithAt(s, RE_PREFIX, i) THEN 0
    ELSE LET j == i + Len(RE_PREFIX)
             K == {k \in 1..NonSlashRun(s, j) : StartsWithAt(s, RE_SUFFIX, j + k)}
         IN IF K = {} THEN 0 ELSE SetMax(K)

\* re_search_group returning match.group(0), the whole match
re_search_group_WholeMatch(topic) ==
    LET I == {i \in 1..Len(topic) : GroupLenAt(topic, i) > 0}
    IN IF I = {} THEN PyNone
       ELSE With(SetMin(I), LAMBDA i :
                PyStr(SubSeq(topic, i,
                             i + Len(RE_PREFIX) + GroupLenAt(topic, i)
                               + Len(RE_SUFFIX) - 1)))

\* match.group(1) of the leftmost match, PyNone when there is none
re_search_group(topic) ==
    LET I == {i \in 1..Len(topic) : GroupLenAt(topic, i) > 0}
    IN IF I = {} THEN PyNone
       ELSE With(SetMin(I), LAMBDA i :
                PyStr(SubSeq(topic, i + Len(RE_PREFIX),
                             i + Len(RE_PREFIX) + GroupLenAt(topic, i) - 1)))

\* extract_device_id with the literal paths tested before the pattern
extract_device_id_LiteralPathsFirst(topic) ==
    IF Contains(topic, DEVICE_SLEEP_BLANKET) THEN PyStr(GENERAL_DEVICE)
    ELSE IF Contains(topic, SENSORS_SLEEP_MONITOR) THEN PyStr(MONITOR_SENSOR)
    ELSE re_search_group(topic)

extract_device_id(topic) ==
    With(re_search_group(topic), LAMBDA match :
        IF match # PyNone THEN match
        ELSE IF Contains(topic, DEVICE_SLEEP_BLANKET) THEN PyStr(GENERAL_DEVICE)
        ELSE IF Contains(topic, SENSORS_SLEEP_MONITOR) THEN PyStr(MONITOR_SENSOR)
        ELSE PyNone)

(***************************************************************************)
(* str methods used by parse_data.                                         *)
(***************************************************************************)
\* characters removed by str.strip()
WhiteSpace == {" ", "\t", "\n", "\r"}
UpperCase ==
    <<"A","B","C","D","E","F","G","H","I","J","K","L","M","N","O","P","Q","R","S","T","U","V","W","X","Y","Z">>
LowerCase ==
    <<"a","b","c","d","e","f","g","h","i","j","k","l","m","n","o","p","q","r","s","t","u","v","w","x","y","z">>
AsciiDigits == <<"0","1","2","3","4","5","6","7","8","9">>
\* The character U+00B2 (superscript two), written as one symbol: str.isdigit()
\* is true of it, int() and float() raise ValueError on it.
SUPERSCRIPT_TWO == "<U+00B2>"

IsAsciiDigit(c) == \E i \in 1..Len(AsciiDigits) : AsciiDigits[i] = c
DigitValue(c) == (CHOOSE i \in 1..Len(AsciiDigits) : AsciiDigits[i] = c) - 1

\* c.lower()
LowerChar(c) ==
    IF \E i \in 1..Len(UpperCase) : UpperCase[i] = c
    THEN LowerCase[CHOOSE i \in 1..Len(UpperCase) : UpperCase[i] = c]
    ELSE c

\* lower() leaving the text as it is
str_lower_Unchanged(s) == s

\* s.lower()
str_lower(s) == [i \in 1..Len(s) |-> LowerChar(s[i])]

\* s.strip()
str_strip(s) ==
    With({i \in 1..Len(s) : s[i] \notin WhiteSpace}, LAMBDA Keep :
        IF Keep = {} THEN <<>> ELSE SubSeq(s, SetMin(Keep), SetMax(Keep)))

\* s.isdigit(): not empty and every character a digit
str_isdigit(s) ==
    /\ Len(s) > 0
    /\ \A i \in 1..Len(s) : IsAsciiDigit(s[i]) \/ s[i] = SUPERSCRIPT_TWO

\* s.replace(old, '') for a one-character old
str_remove(s, old) == SelectSeq(s, LAMBDA c : c # old)

\* s.find(p) + 1: the first position of p in s, 0 when p is not in s
FirstIndex(s, p) ==
    With({i \in 1..(Len(s) + 1) : StartsWithAt(s, p, i)}, LAMBDA I :
        IF I = {} THEN 0 ELSE SetMin(I))

\* s.split(sep), sep not empty
RECURSIVE str_split(_, _)
str_split(s, sep) ==
    With(FirstIndex(s, sep), LAMBDA i :
        IF i = 0 THEN <<s>>
        ELSE <<SubSeq(s, 1, i - 1)>>
             \o With(SubSeq(s, i + Len(sep), Len(s)), LAMBDA rest :
                    str_split(rest, sep)))

\* the value of a string of ASCII digits
DigitsToNat(s) ==
    LET value[k \in 0..Len(s)] ==
            IF k = 0 THEN 0 ELSE value[k - 1] * 10 + DigitValue(s[k])
    IN value[Len(s)]

\* A conversion's outcome: a value, or an exception raised.
Returned(x) == [exc |-> FALSE, v |-> x]
Raised == [exc |-> TRUE, v |-> PyNone]

\* int(s) for s with s.isdigit(): ValueError on a digit that is not decimal
py_int(s) ==
    IF \A i \in 1..Len(s) : IsAsciiDigit(s[i])
    THEN Returned(PyInt(DigitsToNat(s)))
    ELSE Raised

\* num / 10^scale without trailing zeros in the fraction
NormFloat(num, scale) ==
    LET Drop == {d \in 0..scale : \A e \in 1..d : num % (10 ^ e) = 0}
    IN With(SetMax(Drop), LAMBDA d : PyFloat(num \div (10 ^ d), scale - d))

\* float(s) for s with s.replace('.', '').isdigit(): ValueError when s has more
\* than one '.' or a digit that is not decimal
py_float(s) ==
    With({i \in 1..Len(s) : s[i] = "."}, LAMBDA dots :
    With(str_remove(s, "."), LAMBDA digits :
        IF Cardinality(dots) > 1
           \/ \E i \in 1..Len(digits) : ~IsAsciiDigit(digits[i])
        THEN Raised
        ELSE Returned(NormFloat(DigitsToNat(digits),
                                IF dots = {} THEN 0 ELSE Len(s) - SetMin(dots)))))

(***************************************************************************)
(* parse_data, the delimited format (the loop body and the loop).          *)
(***************************************************************************)
\* The branches on key and value of one iteration of `for part in parts`: the
\* dict after it, or an exception.
\* parse_key_value with a malformed ALARM value read as 1
parse_key_value_AlarmDefaultsToOne(data_dict, key, value) ==
    LET Store(field, conv) ==
            IF conv.exc THEN Raised
            ELSE Returned(DictSet(data_dict, field, conv.v))
        IntOr(default) ==
            IF str_isdigit(value) THEN py_int(value) ELSE Returned(default)
        FloatOr(default) ==
            IF str_isdigit(str_remove(value, ".")) THEN py_float(value)
            ELSE Returned(default)
    IN  IF value = N_A
        THEN Returned(DictSet(data_dict,
                              IF key \in {K_raw, K_rms, K_th}
                              THEN key \o VALUE_SUFFIX ELSE key,
                              PyNone))
        ELSE IF key = K_raw THEN Store(F_raw_value, IntOr(PyNone))
        ELSE IF key = K_rms THEN Store(F_rms_value, FloatOr(PyNone))
        ELSE IF key = K_th THEN Store(F_threshold_value, FloatOr(PyNone))
        ELSE IF key = K_state THEN Store(F_state, IntOr(PyNone))
        ELSE IF key = K_move THEN Store(F_movement_count, IntOr(PyNone))
        ELSE IF key = K_connected THEN Store(F_is_connected, IntOr(PyInt(1)))
        ELSE IF key = K_alarm THEN Store(F_is_alarm, IntOr(PyInt(1)))
        ELSE Returned(data_dict)

parse_key_value(data_dict, key, value) ==
    LET Store(field, conv) ==
            IF conv.exc THEN Raised
            ELSE Returned(DictSet(data_dict, field, conv.v))
        IntOr(default) ==
            IF str_isdigit(value) THEN py_int(value) ELSE Returned(default)
        FloatOr(default) ==
            IF str_isdigit(str_remove(value, ".")) THEN py_float(value)
            ELSE Returned(default)
    IN  IF value = N_A
        THEN Returned(DictSet(data_dict,
                              IF key \in {K_raw, K_rms, K_th}
                              THEN key \o VALUE_SUFFIX ELSE key,
                              PyNone))
        ELSE IF key = K_raw THEN Store(F_raw_value, IntOr(PyNone))
        ELSE IF key = K_rms THEN Store(F_rms_value, FloatOr(PyNone))
        ELSE IF key = K_th THEN Store(F_threshold_value, FloatOr(PyNone))
        ELSE IF key = K_state THEN Store(F_state, IntOr(PyNone))
        ELSE IF key = K_move THEN Store(F_movement_count, IntOr(PyNone))
        ELSE IF key = K_connected THEN Store(F_is_connected, IntOr(PyInt(1)))
        ELSE IF key = K_alarm THEN Store(F_is_alarm, IntOr(PyInt(0)))
        ELSE Returned(data_dict)

\* One iteration of `for part in parts`.
parse_part(data_dict, part) ==
    IF ~Contains(part, <<":">>) THEN Returned(data_dict)
    ELSE With(FirstIndex(part, <<":">>), LAMBDA colon :
         With(str_lower(str_strip(SubSeq(part, 1, colon - 1))), LAMBDA key :
         With(str_strip(SubSeq(part, colon + 1, Len(part))), LAMBDA value :
             parse_key_value(data_dict, key, value))))

RECURSIVE parse_parts(_, _, _)
parse_parts(data_dict, parts, i) ==
    IF i > Len(parts) THEN Returned(data_dict)
    ELSE With(parse_part(data_dict, parts[i]), LAMBDA r :
             IF r.exc THEN r
             ELSE With(i + 1, LAMBDA j : parse_parts(r.v, parts, j)))

(***************************************************************************)
(* json.loads, for documents that are one flat object: members             *)
(* "key": value with value a string without escapes, a number without      *)
(* exponent, true, false or null; white space is allowed between tokens.   *)
(* Anything else raises (json.JSONDecodeError).  The payloads of this model *)
(* contain no nested object or array, no escape and no exponent, so that   *)
(* this decoder and json.loads agree on every one of them.                 *)
(***************************************************************************)
JsonFail == [ok |-> FALSE, pos |-> 0, v |-> PyNone]
JsonOk(pos, v) == [ok |-> TRUE, pos |-> pos, v |-> v]
J_true == <<"t","r","u","e">>
J_false == <<"f","a","l","s","e">>
J_null == <<"n","u","l","l">>

\* the first position from i on that holds no white space
SkipWs(s, i) ==
    With({k \in i..Len(s) : s[k] \notin WhiteSpace}, LAMBDA N :
        IF N = {} THEN Len(s) + 1 ELSE SetMin(N))

\* the number of decimal digits from position i on (i <= Len(s) + 1)
DigitRun(s, i) ==
    With({k \in i..Len(s) : ~IsAsciiDigit(s[k])}, LAMBDA N :
        IF N = {} THEN Len(s) + 1 - i ELSE SetMin(N) - i)

\* a string: from the quote at i to the next quote
json_string(s, i) ==
    IF i > Len(s) \/ s[i] # "\"" THEN JsonFail
    ELSE With({j \in (i + 1)..Len(s) : s[j] = "\""}, LAMBDA Q :
             IF Q = {} THEN JsonFail
             ELSE With(SetMin(Q), LAMBDA q :
                      JsonOk(q + 1, PyStr(SubSeq(s, i + 1, q - 1)))))

\* the number from position st on, with the sign given:
\* (0|[1-9][0-9]*)(\.[0-9]+)?
json_unsigned(s, st, sign) ==
    With(DigitRun(s, st), LAMBDA run :
    With(IF run > 0 /\ s[st] = "0" THEN 1 ELSE run, LAMBDA ilen :
    With(st + ilen, LAMBDA dot :
    With(IF dot <= Len(s) /\ s[dot] = "." THEN DigitRun(s, dot + 1) ELSE 0,
         LAMBDA flen :
        IF ilen = 0 THEN JsonFail
        ELSE IF flen = 0
        THEN JsonOk(dot, PyInt(sign * DigitsToNat(SubSeq(s, st, dot - 1))))
        ELSE With(NormFloat(DigitsToNat(SubSeq(s, st, dot - 1)
                                        \o SubSeq(s, dot + 1, dot + flen)),
                            flen),
                  LAMBDA f : JsonOk(dot + flen + 1,
                                    PyFloat(sign * f.num, f.scale)))))))

\* a number: -?(0|[1-9][0-9]*)(\.[0-9]+)?
json_number(s, i) ==
    IF s[i] = "-" THEN json_unsigned(s, i + 1, -1) ELSE json_unsigned(s, i, 1)

json_value(s, i) ==
    IF i > Len(s) THEN JsonFail
    ELSE IF s[i] = "\"" THEN json_string(s, i)
    ELSE IF StartsWithAt(s, J_true, i) THEN JsonOk(i + Len(J_true), PyBool(TRUE))
    ELSE IF StartsWithAt(s, J_false, i) THEN JsonOk(i + Len(J_false), PyBool(FALSE))
    ELSE IF StartsWithAt(s, J_null, i) THEN JsonOk(i + Len(J_null), PyNone)
    ELSE json_number(s, i)

\* the members of an object from position i on, up to the closing brace; a
\* repeated key keeps its last value
RECURSIVE json_members(_, _, _)
json_members(s, i, d) ==
    With(json_string(s, SkipWs(s, i)), LAMBDA k :
        IF ~k.ok THEN JsonFail
        ELSE With(SkipWs(s, k.pos), LAMBDA c :
        IF c > Len(s) \/ s[c] # ":" THEN JsonFail
        ELSE With(json_value(s, SkipWs(s, c + 1)), LAMBDA v :
        IF ~v.ok THEN JsonFail
        ELSE With(SkipWs(s, v.pos), LAMBDA e :
        With(DictSet(d, k.v.v, v.v), LAMBDA d2 :
        IF e > Len(s) THEN JsonFail
        ELSE IF s[e] = "," THEN With(e + 1, LAMBDA n : json_members(s, n, d2))
        ELSE IF s[e] = "}" THEN JsonOk(e + 1, PyDict(d2))
        ELSE JsonFail)))))

json_loads(s) ==
    With(SkipWs(s, 1), LAMBDA i :
    With(SkipWs(s, i + 1), LAMBDA j :
    With(IF i > Len(s) \/ s[i] # "{" THEN JsonFail
         ELSE IF j <= Len(s) /\ s[j] = "}" THEN JsonOk(j + 1, PyDict(EmptyDict))
         ELSE json_members(s, j, EmptyDict),
         LAMBDA obj :
        IF obj.ok /\ SkipWs(s, obj.pos) > Len(s) THEN Returned(obj.v)
        ELSE Raised)))

(***************************************************************************)
(* parse_data: the try block and its except clause.                        *)
(***************************************************************************)
parse_data_try(payload) ==
    IF StartsWithAt(payload, <<"{">>, 1) THEN json_loads(payload)
    ELSE With(str_split(payload, COMMA_SPACE), LAMBDA parts :
         With(parse_parts(EmptyDict, parts, 1), LAMBDA r :
             IF r.exc THEN Raised ELSE Returned(PyDict(r.v))))

\* except Exception: log the error and return None
parse_data(payload) ==
    With(parse_data_try(payload), LAMBDA r : IF r.exc THEN PyNone ELSE r.v)

(***************************************************************************)
(* The state of the receiver and of what it acts on.                       *)
(***************************************************************************)
VARIABLES
    \* ALARM_CONFIG, fixed when the receiver is constructed
    alarm_config,
    \* self.stats
    stats,
    \* self.is_running
    is_running,
    \* the subscription loop (client.loop_forever) is delivering messages
    loop_alive,
    \* the wall clock (datetime.now()), in seconds since construction
    now,
    \* the number of rows of the table device_data
    device_data_rows,
    \* the alarm notifications written by logger.warning in handle_alarm, in
    \* order: [device_id, time, printed]
    alarm_log,
    \* the message handled last: the message, the sink's answer to it, the
    \* statistics before it, and what handle_message did with it
    last,
    \* one application of a function to one argument: [fn, arg, done, ret]
    probe,
    \* the call of handle_message in progress when the handler is followed
    \* statement by statement: [pc, device_id, data_dict, ok], pc "idle" when
    \* no call is in progress
    handling,
    \* db_manager.connection is open
    connection_open,
    \* the position of the statistics thread in stats_reporter: "none" before
    \* the thread is started, "test" at `while self.is_running`, "sleep" in
    \* time.sleep(60), "done" after the loop, "killed" when the process ended
    \* under the daemon thread
    reporter,
    \* the statistics line logger.info wrote last in stats_reporter:
    \* [emitted, total_received, total_processed, total_errors, running]
    last_report,
    \* self.api_stats of the query API (SleepBlanketAPI)
    api_stats,
    \* the request the query API answered last and its answer:
    \* [path, code, data]
    api_last

\* the state of the receiver process
receiver_vars ==
    <<alarm_config, stats, is_running, loop_alive, now, device_data_rows,
      alarm_log, last, probe, handling, connection_open, reporter,
      last_report>>

vars == <<alarm_config, stats, is_running, loop_alive, now, device_data_rows,
          alarm_log, last, probe, handling, connection_open, reporter,
          last_report, api_stats, api_last>>

(***************************************************************************)
(* msg.payload.decode('utf-8').  A payload is a sequence of characters     *)
(* (each standing for its UTF-8 encoding) and of bytes that are no part of *)
(* any valid encoding.                                                     *)
(***************************************************************************)
\* the byte 0xFF, which occurs in no UTF-8 encoding
INVALID_BYTE == "<0xFF>"

decode_utf8(payload) ==
    IF \E i \in 1..Len(payload) : payload[i] = INVALID_BYTE
    THEN Raised
    ELSE Returned(PyStr(payload))

(***************************************************************************)
(* MySQLDataManager.insert_device_data.  sink_ok tells whether             *)
(* cursor.execute succeeds; any exception is caught and answered False.    *)
(***************************************************************************)
insert_device_data(device_id, data_dict, sink_ok, t) ==
    With([device_id |-> device_id,
          raw_value |-> DictGet(data_dict, F_raw_value, PyNone),
          rms_value |-> DictGet(data_dict, F_rms_value, PyNone),
          threshold_value |-> DictGet(data_dict, F_threshold_value, PyNone),
          state |-> DictGet(data_dict, F_state, PyNone),
          movement_count |-> DictGet(data_dict, F_movement_count, PyNone),
          is_connected |-> DictGet(data_dict, F_is_connected, PyInt(1)),
          is_alarm |-> DictGet(data_dict, F_is_alarm, PyInt(0)),
          timestamp |-> DictGet(data_dict, F_timestamp, PyTime(t))],
         LAMBDA values :
        IF sink_ok THEN [ok |-> TRUE, rows |-> <<values>>]
        ELSE [ok |-> FALSE, rows |-> <<>>])

\* handle_alarm without the test of the ignore list
handle_alarm_NoIgnoreList(device_id, data_dict) ==
    IF ~alarm_config.enable_device_alarm THEN <<>>
    ELSE <<[device_id |-> device_id, printed |-> ~alarm_config.silent_mode]>>

\* handle_alarm with silent_mode suppressing the alarm altogether
handle_alarm_SilentRaisesNothing(device_id, data_dict) ==
    IF ~alarm_config.enable_device_alarm THEN <<>>
    ELSE IF device_id \in alarm_config.ignored_devices THEN <<>>
    ELSE IF alarm_config.silent_mode THEN <<>>
    ELSE <<[device_id |-> device_id, printed |-> TRUE]>>

\* handle_alarm without the test of enable_device_alarm
handle_alarm_NoSwitch(device_id, data_dict) ==
    IF device_id \in alarm_config.ignored_devices THEN <<>>
    ELSE <<[device_id |-> device_id, printed |-> ~alarm_config.silent_mode]>>

(***************************************************************************)
(* MQTTReceiver.handle_alarm: the notifications it emits, each             *)
(* [device_id, printed].                                                   *)
(***************************************************************************)
handle_alarm(device_id, data_dict) ==
    IF ~alarm_config.enable_device_alarm THEN <<>>
    ELSE IF device_id \in alarm_config.ignored_devices THEN <<>>
    ELSE <<[device_id |-> device_id, printed |-> ~alarm_config.silent_mode]>>

(***************************************************************************)
(* The messages delivered to the receiver.                                 *)
(***************************************************************************)
\* 'sleep_blanket/SB001/data'
T_data_SB001 ==
    <<"s","l","e","e","p","_","b","l","a","n","k","e","t","/","S","B","0","0","1","/","d","a","t","a">>
\* 'sleep_blanket/SB067/data'
T_data_SB067 ==
    <<"s","l","e","e","p","_","b","l","a","n","k","e","t","/","S","B","0","6","7","/","d","a","t","a">>
\* 'sleep_blanket/SB001/status'
T_status_SB001 ==
    <<"s","l","e","e","p","_","b","l","a","n","k","e","t","/","S","B","0","0","1","/","s","t","a","t","u","s">>
\* 'SB001'
SB001 == <<"S","B","0","0","1">>

\* topics matching the five subscribed filters of MQTT_CONFIG['topics']
Topics ==
    {T_data_SB001, T_data_SB067, T_status_SB001, DEVICE_SLEEP_BLANKET}

\* The topics the broker delivers for the five filters subscribed in
\* on_connect.  '+' stands for exactly one topic level, a possibly empty run
\* of characters other than '/'; the two filters without a wildcard match
\* their own text only.
STATUS_SUFFIX == <<"/","s","t","a","t","u","s">>
ALARM_SUFFIX == <<"/","a","l","a","r","m">>
\* levels that are words of the resolver's rules and of the filters
WordLevels ==
    {<<"d","a","t","a">>,
     <<"d","e","v","i","c","e">>,
     <<"s","e","n","s","o","r","s">>,
     <<"s","l","e","e","p","_","b","l","a","n","k","e","t">>,
     <<"s","l","e","e","p","_","m","o","n","i","t","o","r">>,
     <<"s","t","a","t","u","s">>,
     <<"a","l","a","r","m">>,
     SB001, SB067}
LevelChars == {"A", "b", "7", "-", "_", " ", "d"}
Levels == UNION {[1..n -> LevelChars] : n \in 0..MaxSegLen} \cup WordLevels
\* 'sleep_blanket/+/data', 'sleep_blanket/+/status', 'sleep_blanket/+/alarm'
DataFilterTopics == {RE_PREFIX \o d \o RE_SUFFIX : d \in Levels}
StatusFilterTopics == {RE_PREFIX \o d \o STATUS_SUFFIX : d \in Levels}
AlarmFilterTopics == {RE_PREFIX \o d \o ALARM_SUFFIX : d \in Levels}
SubscribedTopics ==
    DataFilterTopics \cup StatusFilterTopics \cup AlarmFilterTopics
      \cup {DEVICE_SLEEP_BLANKET, SENSORS_SLEEP_MONITOR}

\* 'RAW:3000, RMS:1800.50, TH:2000.00, STATE:1, MOVE:5, CONNECTED:1, ALARM:0'
P_full ==
    <<"R","A","W",":","3","0","0","0",","," ","R","M","S",":","1","8","0","0",".","5","0",","," ","T","H",":","2","0","0","0",".","0","0",","," ","S","T","A","T","E",":","1",","," ","M","O","V","E",":","5",","," ","C","O","N","N","E","C","T","E","D",":","1",","," ","A","L","A","R","M",":","0">>
\* 'RAW:N/A, ALARM:1'
P_alarm == <<"R","A","W",":","N","/","A",","," ","A","L","A","R","M",":","1">>
\* 'MOVE:5, ALARM:2'
P_alarm_two == <<"M","O","V","E",":","5",","," ","A","L","A","R","M",":","2">>
\* 'garbage data'
P_garbage == <<"g","a","r","b","a","g","e"," ","d","a","t","a">>
\* 'RMS:1.2.3, ALARM:1'
P_two_dots == <<"R","M","S",":","1",".","2",".","3",","," ","A","L","A","R","M",":","1">>
\* '{"raw_value": 5, "is_alarm": true}'
P_json_alarm ==
    <<"{","\"","r","a","w","_","v","a","l","u","e","\"",":"," ","5",","," ","\"","i","s","_","a","l","a","r","m","\"",":"," ","t","r","u","e","}">>
\* '{bad'
P_json_bad == <<"{","b","a","d">>
\* b'\xffALARM:1'
P_not_utf8 == <<INVALID_BYTE,"A","L","A","R","M",":","1">>
\* '{"timestamp": "x", "is_alarm": 1}', a structured payload with a timestamp
\* of its own
P_json_timestamp == <<"{","\"","t","i","m","e","s","t","a","m","p","\"",":"," ","\"","x","\"",","," ","\"","i","s","_","a","l","a","r","m","\"",":"," ","1","}">>

Payloads ==
    {P_full, P_alarm, P_alarm_two, P_garbage, P_two_dots, P_json_alarm,
     P_json_bad, P_not_utf8, P_json_timestamp}

(***************************************************************************)
(* Payloads of the delimited format, joined from at most MaxTokens tokens,  *)
(* and payloads that open with a brace.                                    *)
(***************************************************************************)
\* 'RAW:N/A'
TK_raw_na == <<"R","A","W",":","N","/","A">>
\* 'RAW:5'
TK_raw_5 == <<"R","A","W",":","5">>
\* 'RAW:abc'
TK_raw_abc == <<"R","A","W",":","a","b","c">>
\* 'RMS:1.2.3'
TK_rms_two_dots == <<"R","M","S",":","1",".","2",".","3">>
\* 'RMS:1.5'
TK_rms == <<"R","M","S",":","1",".","5">>
\* 'MOVE:-5'
TK_move_minus == <<"M","O","V","E",":","-","5">>
\* 'FOO:1'
TK_foo == <<"F","O","O",":","1">>
\* 'FOO:N/A'
TK_foo_na == <<"F","O","O",":","N","/","A">>
\* 'ALARM:1'
TK_alarm == <<"A","L","A","R","M",":","1">>
\* 'MOVE:N/A'
TK_move_na == <<"M","O","V","E",":","N","/","A">>
\* 'CONNECTED:N/A'
TK_connected_na == <<"C","O","N","N","E","C","T","E","D",":","N","/","A">>
\* 'ALARM:N/A'
TK_alarm_na == <<"A","L","A","R","M",":","N","/","A">>
\* 'ALARM:x'
TK_alarm_x == <<"A","L","A","R","M",":","x">>
\* 'CONNECTED:x'
TK_connected_x == <<"C","O","N","N","E","C","T","E","D",":","x">>

Tokens ==
    {TK_raw_na, TK_raw_5, TK_raw_abc, TK_rms_two_dots, TK_rms,
     TK_move_minus, TK_foo, TK_foo_na, TK_alarm, TK_move_na,
     TK_connected_na, TK_alarm_na, TK_alarm_x, TK_connected_x, P_garbage}
TokenLists == UNION {[1..n -> Tokens] : n \in 0..MaxTokens}

\* ', '.join(tokens)
Join(tokens) ==
    LET joined[k \in 0..Len(tokens)] ==
            IF k = 0 THEN <<>>
            ELSE IF k = 1 THEN tokens[1]
            ELSE joined[k - 1] \o COMMA_SPACE \o tokens[k]
    IN joined[Len(tokens)]

\* ' {"raw_value": 5, "is_alarm": true}'
P_ws_json_alarm ==
    <<" ","{","\"","r","a","w","_","v","a","l","u","e","\"",":"," ","5",","," ","\"","i","s","_","a","l","a","r","m","\"",":"," ","t","r","u","e","}">>
\* '{"raw_value": "abc"}'
P_json_text_value ==
    <<"{","\"","r","a","w","_","v","a","l","u","e","\"",":"," ","\"","a","b","c","\"","}">>
\* '{"raw_value": 5, "is_connected": null, "is_alarm": null}'
P_json_nulls ==
    <<"{","\"","r","a","w","_","v","a","l","u","e","\"",":"," ","5",","," ","\"","i","s","_","c","o","n","n","e","c","t","e","d","\"",":"," ","n","u","l","l",","," ","\"","i","s","_","a","l","a","r","m","\"",":"," ","n","u","l","l","}">>
\* '{RAW:5, ALARM:1'
P_brace_delimited ==
    <<"{","R","A","W",":","5",","," ","A","L","A","R","M",":","1">>
\* ' {x, ALARM:1'
P_ws_brace_delimited ==
    <<" ","{","x",","," ","A","L","A","R","M",":","1">>

StructuredPayloads ==
    {P_json_alarm, P_json_bad, P_ws_json_alarm, P_json_text_value,
     P_json_nulls, P_brace_delimited, P_ws_brace_delimited}

\* the inputs of one application of parse_data: the payload and the tokens it
\* was joined from (none for a payload that opens with a brace)
ParseInputs ==
    {[payload |-> Join(tokens), tokens |-> tokens] : tokens \in TokenLists}
    \cup {[payload |-> payload, tokens |-> <<>>] : payload \in StructuredPayloads}

\* P_full with its keys in lower case
P_full_lower ==
    <<"r","a","w",":","3","0","0","0",","," ","r","m","s",":","1","8","0","0",".","5","0",","," ","t","h",":","2","0","0","0",".","0","0",","," ","s","t","a","t","e",":","1",","," ","m","o","v","e",":","5",","," ","c","o","n","n","e","c","t","e","d",":","1",","," ","a","l","a","r","m",":","0">>
\* P_full with its keys in mixed case:
\* 'Raw:3000, rMs:1800.50, tH:2000.00, StAtE:1, moVE:5, Connected:1, alarM:0'
P_full_mixed ==
    <<"R","a","w",":","3","0","0","0",","," ","r","M","s",":","1","8","0","0",".","5","0",","," ","t","H",":","2","0","0","0",".","0","0",","," ","S","t","A","t","E",":","1",","," ","m","o","V","E",":","5",","," ","C","o","n","n","e","c","t","e","d",":","1",","," ","a","l","a","r","M",":","0">>
FullPayloads == {P_full, P_full_lower, P_full_mixed}

\* the payloads of a message handled on its own
IngestPayloads ==
    {in.payload : in \in ParseInputs} \cup FullPayloads \cup {P_not_utf8}

\* extract_device_id and parse_data are functions of their argument alone:
\* they are tabulated here over the messages delivered, and handle_message
\* reads the tables.
DeviceIdOf ==
    [topic \in Topics \cup SubscribedTopics |-> extract_device_id(topic)]
DataDictOf ==
    [payload \in {p \in Payloads \cup IngestPayloads : ~decode_utf8(p).exc} |->
        parse_data(payload)]

(***************************************************************************)
(* MQTTReceiver.handle_message.  The outcome of one call:                  *)
(*   exc        an exception left the code                                 *)
(*   stats      self.stats afterwards                                      *)
(*   device_id  what extract_device_id returned (PyNone when not reached)  *)
(*   data_dict  what parse_data returned (PyNone when not reached)         *)
(*   calls      the methods called, in order                               *)
(*   rows       the rows the sink stored                                   *)
(*   alarms     the alarm notifications emitted                            *)
(***************************************************************************)
\* count_insert with the sink's answer ignored
count_insert_AnswerIgnored(st, ok) == [st EXCEPT !.total_processed = @ + 1]

\* count_insert counting a refused record as processed and as an error
count_insert_RefusedCountedTwice(st, ok) ==
    IF ok THEN [st EXCEPT !.total_processed = @ + 1]
    ELSE [st EXCEPT !.total_processed = @ + 1, !.total_errors = @ + 1]

\* the statistics after the sink answered: `if insert_device_data(...)`
count_insert(st, ok) ==
    IF ok THEN [st EXCEPT !.total_processed = @ + 1]
    ELSE [st EXCEPT !.total_errors = @ + 1]

\* the outcome of a call that ends before the sink is reached
Outcome(exc, st, device_id, data_dict, calls) ==
    [exc |-> exc, stats |-> st, device_id |-> device_id,
     data_dict |-> data_dict, calls |-> calls, rows |-> <<>>, alarms |-> <<>>]

\* handle_message_try with the alarm step skipped when the sink refused
handle_message_try_AlarmOnlyIfStored(st, msg, sink_ok, t) ==
    With([st EXCEPT !.total_received = @ + 1,
                    !.last_message_time = PyTime(t)], LAMBDA stats1 :
    With(decode_utf8(msg.payload), LAMBDA payload :
    IF payload.exc
    THEN Outcome(TRUE, stats1, PyNone, PyNone, <<"decode">>)
    ELSE
    With(DeviceIdOf[msg.topic], LAMBDA device_id :
    IF ~Truthy(device_id)
    THEN Outcome(FALSE, stats1, device_id, PyNone,
                 <<"decode", "extract_device_id">>)
    ELSE
    With(DataDictOf[payload.v.v], LAMBDA data_dict :
    IF ~Truthy(data_dict)
    THEN Outcome(FALSE, stats1, device_id, data_dict,
                 <<"decode", "extract_device_id", "parse_data">>)
    ELSE
    With(DictSet(data_dict.v, F_timestamp, PyTime(t)), LAMBDA stamped :
    With(insert_device_data(device_id.v, stamped, sink_ok, t), LAMBDA inserted :
    With(PyEqualsOne(DictGet(stamped, F_is_alarm, PyNone)), LAMBDA is_alarm :
        [exc |-> FALSE,
         stats |-> count_insert(stats1, inserted.ok),
         device_id |-> device_id,
         data_dict |-> PyDict(stamped),
         calls |-> <<"decode", "extract_device_id", "parse_data",
                     "insert_device_data">>
                   \o (IF is_alarm /\ inserted.ok THEN <<"handle_alarm">> ELSE <<>>),
         rows |-> inserted.rows,
         alarms |-> IF is_alarm /\ inserted.ok THEN handle_alarm(device_id.v, stamped)
                    ELSE <<>>])))))))

\* the body of the try block
handle_message_try(st, msg, sink_ok, t) ==
    With([st EXCEPT !.total_received = @ + 1,
                    !.last_message_time = PyTime(t)], LAMBDA stats1 :
    With(decode_utf8(msg.payload), LAMBDA payload :
    IF payload.exc
    THEN Outcome(TRUE, stats1, PyNone, PyNone, <<"decode">>)
    ELSE
    With(DeviceIdOf[msg.topic], LAMBDA device_id :
    IF ~Truthy(device_id)
    THEN Outcome(FALSE, stats1, device_id, PyNone,
                 <<"decode", "extract_device_id">>)
    ELSE
    With(DataDictOf[payload.v.v], LAMBDA data_dict :
    IF ~Truthy(data_dict)
    THEN Outcome(FALSE, stats1, device_id, data_dict,
                 <<"decode", "extract_device_id", "parse_data">>)
    ELSE
    With(DictSet(data_dict.v, F_timestamp, PyTime(t)), LAMBDA stamped :
    With(insert_device_data(device_id.v, stamped, sink_ok, t), LAMBDA inserted :
    With(PyEqualsOne(DictGet(stamped, F_is_alarm, PyNone)), LAMBDA is_alarm :
        [exc |-> FALSE,
         stats |-> count_insert(stats1, inserted.ok),
         device_id |-> device_id,
         data_dict |-> PyDict(stamped),
         calls |-> <<"decode", "extract_device_id", "parse_data",
                     "insert_device_data">>
                   \o (IF is_alarm THEN <<"handle_alarm">> ELSE <<>>),
         rows |-> inserted.rows,
         alarms |-> IF is_alarm THEN handle_alarm(device_id.v, stamped)
                    ELSE <<>>])))))))

\* handle_message without the except clause
handle_message_NoExcept(st, msg, sink_ok, t) ==
    handle_message_try(st, msg, sink_ok, t)

\* handle_message with the topic resolved before the payload is decoded
handle_message_ResolveBeforeDecode(st, msg, sink_ok, t) ==
    IF ~Truthy(DeviceIdOf[msg.topic])
    THEN Outcome(FALSE, [st EXCEPT !.total_received = @ + 1,
                                   !.last_message_time = PyTime(t)],
                 DeviceIdOf[msg.topic], PyNone, <<"extract_device_id">>)
    ELSE With(handle_message_try(st, msg, sink_ok, t), LAMBDA r :
             IF r.exc
             THEN [r EXCEPT !.exc = FALSE, !.stats.total_errors = @ + 1]
             ELSE r)

\* try ... except Exception: count the error and log it
handle_message(st, msg, sink_ok, t) ==
    With(handle_message_try(st, msg, sink_ok, t), LAMBDA r :
        IF r.exc
        THEN [r EXCEPT !.exc = FALSE, !.stats.total_errors = @ + 1]
        ELSE r)

\* the values of ALARM_CONFIG that handle_alarm reads; the source sets
\* enable_device_alarm = True and silent_mode = True
AlarmConfigs ==
    [enable_device_alarm : BOOLEAN, silent_mode : BOOLEAN,
     ignored_devices : {{SB067}}, device_alarm_cooldown : {60}]

\* seconds by which the clock advances between two events
TickSteps == {30}

NoMessage == [handled |-> FALSE]
NoProbe == [fn |-> "none"]
Idle == [pc |-> "idle"]
\* no statistics line has been written
NoReport == [emitted |-> FALSE]

\* SleepBlanketAPI.__init__: the request statistics of the query API, which
\* runs as a process of its own beside the receiver
NoRequest == [path |-> "none"]
ApiConstructed ==
    /\ api_stats = [start_time |-> PyTime(0), total_requests |-> 0,
                    successful_requests |-> 0, failed_requests |-> 0]
    /\ api_last = NoRequest

(***************************************************************************)
(* The receiver: construction, start(), a message arriving, time passing.  *)
(***************************************************************************)
\* MQTTReceiver.__init__: the receiver as constructed
Constructed ==
    /\ stats = [total_received |-> 0, total_processed |-> 0,
                total_errors |-> 0, start_time |-> PyTime(0),
                last_message_time |-> PyNone]
    /\ is_running = FALSE
    /\ loop_alive = FALSE
    /\ now = 0
    /\ device_data_rows = 0
    /\ alarm_log = <<>>
    /\ last = NoMessage
    /\ handling = Idle
    /\ connection_open = TRUE
    /\ reporter = "none"
    /\ last_report = NoReport

\* the receiver with one of the alarm policies
Init ==
    /\ alarm_config \in AlarmConfigs
    /\ Constructed
    /\ ApiConstructed
    /\ probe = NoProbe

\* MQTTReceiver.start, up to client.loop_forever(); main() calls it once, on
\* the receiver it has constructed
Start ==
    /\ ~is_running
    /\ connection_open
    /\ stats.total_received = 0
    /\ is_running' = TRUE
    /\ loop_alive' = TRUE
    /\ reporter' = "test"
    /\ UNCHANGED <<alarm_config, stats, now, device_data_rows, alarm_log,
                   last, probe, handling, connection_open, last_report,
                   api_stats, api_last>>

\* on_message: the loop calls handle_message(msg); an exception that leaves
\* the callback ends the loop
HandleMessage(topic, payload, sink_ok) ==
    /\ loop_alive
    /\ stats.total_received < MaxMsgs
    /\ \E r \in {handle_message(stats, [topic |-> topic, payload |-> payload],
                                 sink_ok, now)} :
          /\ stats' = r.stats
          /\ loop_alive' = ~r.exc
          /\ device_data_rows' = device_data_rows + Len(r.rows)
          /\ alarm_log' = alarm_log \o
                 [i \in 1..Len(r.alarms) |->
                     [device_id |-> r.alarms[i].device_id, time |-> now,
                      printed |-> r.alarms[i].printed]]
          /\ last' = [handled |-> TRUE,
                      msg |-> [topic |-> topic, payload |-> payload],
                      sink_ok |-> sink_ok,
                      time |-> now, before |-> stats, result |-> r]
    /\ UNCHANGED <<alarm_config, is_running, now, probe, handling,
                   connection_open,
                   reporter, last_report,
                   api_stats, api_last>>

\* the clock advances
Tick(dt) ==
    /\ now + dt <= MaxTime
    /\ now' = now + dt
    /\ UNCHANGED <<alarm_config, stats, is_running, loop_alive,
                   device_data_rows, alarm_log, last, probe, handling,
                   connection_open,
                   reporter, last_report,
                   api_stats, api_last>>

Next ==
    \/ Start
    \/ \E topic \in Topics, payload \in Payloads, sink_ok \in BOOLEAN :
           HandleMessage(topic, payload, sink_ok)
    \/ \E dt \in TickSteps : Tick(dt)

Spec == Init /\ [][Next]_vars

(***************************************************************************)
(* extract_device_id applied to one topic.  The topics are                 *)
(* sleep_blanket/{d}/data for every d of at most MaxSegLen characters, the *)
(* empty d and a d with '/' included.                                      *)
(***************************************************************************)
\* 'sleep_blanket' and 'data', the fixed levels of the subscribed filter
\* 'sleep_blanket/+/data'
LEVEL_sleep_blanket == <<"s","l","e","e","p","_","b","l","a","n","k","e","t">>
LEVEL_data == <<"d","a","t","a">>

\* characters of a topic level, and the level separator
SegChars == {"A", "b", "7", "-", "_", " ", "d", "/"}
Segments == UNION {[1..n -> SegChars] : n \in 0..MaxSegLen}

\* the topic sleep_blanket/{d}/data
DataTopic(d) == LEVEL_sleep_blanket \o <<"/">> \o d \o <<"/">> \o LEVEL_data

ProbeTopics == {DataTopic(d) : d \in Segments}

InitTopic ==
    /\ alarm_config \in {c \in AlarmConfigs :
                            c.enable_device_alarm /\ c.silent_mode}
    /\ Constructed
    /\ ApiConstructed
    /\ probe \in {[fn |-> "extract_device_id", arg |-> topic, done |-> FALSE,
                   ret |-> PyNone] : topic \in ProbeTopics}

\* device_id = self.extract_device_id(topic)
ResolveTopic ==
    /\ probe.fn = "extract_device_id"
    /\ ~probe.done
    /\ probe' = [probe EXCEPT !.done = TRUE,
                              !.ret = extract_device_id(probe.arg)]
    /\ UNCHANGED <<alarm_config, stats, is_running, loop_alive, now,
                   device_data_rows, alarm_log, last, handling,
                   connection_open,
                   reporter, last_report,
                   api_stats, api_last>>

NextTopic == ResolveTopic

SpecTopic == InitTopic /\ [][NextTopic]_vars

(***************************************************************************)
(* extract_device_id applied to one topic built around a literal path:     *)
(* pre + core + post, for every pre and post of at most MaxAffixLen        *)
(* characters and for '/extra'.                                            *)
(***************************************************************************)
\* '/extra'
EXTRA == <<"/","e","x","t","r","a">>
\* 'device/sleep_blanke', one character short of the literal path
DEVICE_SLEEP_BLANKE == <<"d","e","v","i","c","e","/","s","l","e","e","p","_","b","l","a","n","k","e">>
\* 'Sensors/Sleep_Monitor', the literal path in another letter case
SENSORS_CAPITALIZED == <<"S","e","n","s","o","r","s","/","S","l","e","e","p","_","M","o","n","i","t","o","r">>
\* 'sensors/sleep_monitor/device/sleep_blanket', both literal paths
SENSORS_THEN_DEVICE == <<"s","e","n","s","o","r","s","/","s","l","e","e","p","_","m","o","n","i","t","o","r","/","d","e","v","i","c","e","/","s","l","e","e","p","_","b","l","a","n","k","e","t">>
\* 'device/sleep_blanket/X/data', a literal path and a match of the pattern
DEVICE_THEN_DATA == <<"d","e","v","i","c","e","/","s","l","e","e","p","_","b","l","a","n","k","e","t","/","X","/","d","a","t","a">>

\* 'sensors/sleep_monitor/sleep_blanket/Y/data', the other literal path and a
\* match of the pattern
SENSORS_THEN_DATA == <<"s","e","n","s","o","r","s","/","s","l","e","e","p","_","m","o","n","i","t","o","r","/","s","l","e","e","p","_","b","l","a","n","k","e","t","/","Y","/","d","a","t","a">>

AffixChars == {"/", "x"}
Affixes == UNION {[1..n -> AffixChars] : n \in 0..MaxAffixLen} \cup {EXTRA}
RuleCores ==
    {DEVICE_SLEEP_BLANKET, SENSORS_SLEEP_MONITOR, DEVICE_SLEEP_BLANKE,
     SENSORS_CAPITALIZED, SENSORS_THEN_DEVICE, DEVICE_THEN_DATA,
     SENSORS_THEN_DATA,
     T_data_SB001, T_status_SB001, <<>>}
RuleTopics == {pre \o core \o post : pre \in Affixes, core \in RuleCores,
                                     post \in Affixes}

InitRules ==
    /\ alarm_config \in {c \in AlarmConfigs :
                            c.enable_device_alarm /\ c.silent_mode}
    /\ Constructed
    /\ ApiConstructed
    /\ probe \in {[fn |-> "extract_device_id", arg |-> topic, done |-> FALSE,
                   ret |-> PyNone] : topic \in RuleTopics}

NextRules == ResolveTopic

SpecRules == InitRules /\ [][NextRules]_vars

(***************************************************************************)
(* parse_data applied to one payload.                                      *)
(***************************************************************************)
InitParse ==
    /\ alarm_config \in {c \in AlarmConfigs :
                            c.enable_device_alarm /\ c.silent_mode}
    /\ Constructed
    /\ ApiConstructed
    /\ probe \in {[fn |-> "parse_data", arg |-> in.payload,
                   tokens |-> in.tokens, done |-> FALSE, ret |-> PyNone] :
                  in \in ParseInputs}

\* data_dict = self.parse_data(payload)
ParsePayload ==
    /\ probe.fn = "parse_data"
    /\ ~probe.done
    /\ probe' = [probe EXCEPT !.done = TRUE, !.ret = parse_data(probe.arg)]
    /\ UNCHANGED <<alarm_config, stats, is_running, loop_alive, now,
                   device_data_rows, alarm_log, last, handling,
                   connection_open,
                   reporter, last_report,
                   api_stats, api_last>>

NextParse == ParsePayload

SpecParse == InitParse /\ [][NextParse]_vars

(***************************************************************************)
(* The receiver handling its first message, of any payload of              *)
(* IngestPayloads, under the policy of the source.                         *)
(***************************************************************************)
InitIngest ==
    /\ alarm_config \in {c \in AlarmConfigs :
                            c.enable_device_alarm /\ c.silent_mode}
    /\ Constructed
    /\ ApiConstructed
    /\ probe = NoProbe

\* on_message for the first message delivered
IngestOne(topic, payload, sink_ok) ==
    /\ stats.total_received = 0
    /\ HandleMessage(topic, payload, sink_ok)

NextIngest ==
    \/ Start
    \/ \E topic \in Topics, payload \in IngestPayloads, sink_ok \in BOOLEAN :
           IngestOne(topic, payload, sink_ok)

SpecIngest == InitIngest /\ [][NextIngest]_vars

(***************************************************************************)
(* The receiver handling one message on any topic of the five subscribed   *)
(* filters.                                                                *)
(***************************************************************************)
SubscribedPayloads == {P_full, P_alarm, P_garbage, P_json_alarm, P_not_utf8}

NextSubscribed ==
    \/ Start
    \/ \E topic \in SubscribedTopics, payload \in SubscribedPayloads,
          sink_ok \in BOOLEAN :
           IngestOne(topic, payload, sink_ok)

SpecSubscribed == InitIngest /\ [][NextSubscribed]_vars

(***************************************************************************)
(* The receiver with handle_message followed statement by statement, and   *)
(* the shutdown signal.  start() runs client.loop_forever() in the main    *)
(* thread and the loop calls on_message there, so a KeyboardInterrupt is   *)
(* raised at whatever statement the main thread is executing.  It is not   *)
(* an Exception: neither `except Exception` of handle_message nor that of  *)
(* insert_device_data catches it, and it leaves loop_forever for the       *)
(* `except KeyboardInterrupt` of start(), which calls stop().              *)
(***************************************************************************)
InitShutdown ==
    /\ alarm_config \in {c \in AlarmConfigs :
                            c.enable_device_alarm /\ c.silent_mode}
    /\ Constructed
    /\ ApiConstructed
    /\ probe = NoProbe

\* handle_message up to the call of the sink: count the message, decode,
\* resolve, parse, stamp.  A call that ends before the sink ends here.
Receive(topic, payload) ==
    /\ loop_alive
    /\ handling.pc = "idle"
    /\ stats.total_received < MaxMsgs
    /\ \E stats1 \in {[stats EXCEPT !.total_received = @ + 1,
                                    !.last_message_time = PyTime(now)]} :
          IF decode_utf8(payload).exc
          THEN /\ stats' = [stats1 EXCEPT !.total_errors = @ + 1]
               /\ handling' = Idle
          ELSE IF ~Truthy(DeviceIdOf[topic]) \/ ~Truthy(DataDictOf[payload])
          THEN /\ stats' = stats1
               /\ handling' = Idle
          ELSE /\ stats' = stats1
               /\ handling' =
                     [pc |-> "insert",
                      device_id |-> DeviceIdOf[topic].v,
                      data_dict |-> DictSet(DataDictOf[payload].v,
                                            F_timestamp, PyTime(now)),
                      ok |-> FALSE]
    /\ UNCHANGED <<alarm_config, is_running, loop_alive, now,
                   device_data_rows, alarm_log, last, probe,
                   connection_open,
                   reporter, last_report,
                   api_stats, api_last>>

\* insert_device_data: cursor.execute on the autocommit connection, and the
\* answer True or False
SinkInsert(sink_ok) ==
    /\ loop_alive
    /\ handling.pc = "insert"
    /\ \E inserted \in {insert_device_data(handling.device_id,
                                           handling.data_dict, sink_ok, now)} :
          /\ device_data_rows' = device_data_rows + Len(inserted.rows)
          /\ handling' = [handling EXCEPT !.pc = "count", !.ok = inserted.ok]
    /\ UNCHANGED <<alarm_config, stats, is_running, loop_alive, now,
                   alarm_log, last, probe, connection_open,
                   reporter, last_report,
                   api_stats, api_last>>

\* the branch on the sink's answer: total_processed += 1 or total_errors += 1
CountInsert ==
    /\ loop_alive
    /\ handling.pc = "count"
    /\ stats' = count_insert(stats, handling.ok)
    /\ handling' = [handling EXCEPT !.pc = "alarm"]
    /\ UNCHANGED <<alarm_config, is_running, loop_alive, now,
                   device_data_rows, alarm_log, last, probe,
                   connection_open,
                   reporter, last_report,
                   api_stats, api_last>>

\* `if data_dict.get('is_alarm') == 1: self.handle_alarm(...)`, and the return
CheckAlarm ==
    /\ loop_alive
    /\ handling.pc = "alarm"
    /\ \E alarms \in {IF PyEqualsOne(DictGet(handling.data_dict, F_is_alarm,
                                             PyNone))
                      THEN handle_alarm(handling.device_id, handling.data_dict)
                      ELSE <<>>} :
          alarm_log' = alarm_log \o
              [i \in 1..Len(alarms) |->
                  [device_id |-> alarms[i].device_id, time |-> now,
                   printed |-> alarms[i].printed]]
    /\ handling' = Idle
    /\ UNCHANGED <<alarm_config, stats, is_running, loop_alive, now,
                   device_data_rows, last, probe, connection_open,
                   reporter, last_report,
                   api_stats, api_last>>

\* KeyboardInterrupt while start() is in loop_forever, then stop(): the call
\* in progress, if any, is abandoned where it stands.
Interrupt ==
    /\ is_running
    /\ loop_alive
    /\ is_running' = FALSE
    /\ loop_alive' = FALSE
    /\ connection_open' = FALSE
    /\ UNCHANGED <<alarm_config, stats, now, device_data_rows, alarm_log,
                   last, probe, handling,
                   reporter, last_report,
                   api_stats, api_last>>

NextShutdown ==
    \/ Start
    \/ \E topic \in Topics, payload \in Payloads : Receive(topic, payload)
    \/ \E sink_ok \in BOOLEAN : SinkInsert(sink_ok)
    \/ CountInsert
    \/ CheckAlarm
    \/ Interrupt

SpecShutdown == InitShutdown /\ [][NextShutdown]_vars

(***************************************************************************)
(* The statistics thread beside the receiver.  start() runs stats_reporter *)
(* in a daemon thread; the thread and the subscription loop share          *)
(* self.stats and self.is_running and no lock.  The thread is followed     *)
(* from its start to its end, the handler statement by statement, and the  *)
(* process to its exit: after stop() start() returns, main() returns, and  *)
(* the interpreter ends without waiting for a daemon thread.               *)
(***************************************************************************)
\* the statistics line of stats_reporter: the counters as they are read
StatsLine ==
    [emitted |-> TRUE,
     total_received |-> stats.total_received,
     total_processed |-> stats.total_processed,
     total_errors |-> stats.total_errors,
     running |-> is_running]

\* `while self.is_running:` the loop goes on into time.sleep(60), or ends
ReporterTest ==
    /\ reporter = "test"
    /\ reporter' = IF is_running THEN "sleep" ELSE "done"
    /\ UNCHANGED <<alarm_config, stats, is_running, loop_alive, now,
                   device_data_rows, alarm_log, last, probe, handling,
                   connection_open, last_report,
                   api_stats, api_last>>

\* stats_reporter with the statistics reset after each line
ReporterReport_ResetsCounters ==
    /\ reporter = "sleep"
    /\ last_report' = StatsLine
    /\ reporter' = "test"
    /\ stats' = [stats EXCEPT !.total_received = 0, !.total_processed = 0,
                              !.total_errors = 0]
    /\ UNCHANGED <<alarm_config, is_running, loop_alive, now,
                   device_data_rows, alarm_log, last, probe, handling,
                   connection_open,
                   api_stats, api_last>>

\* time.sleep(60) is over: the thread reads the statistics, writes the line
\* with logger.info and goes back to the test of the loop
ReporterReport ==
    /\ reporter = "sleep"
    /\ last_report' = StatsLine
    /\ reporter' = "test"
    /\ UNCHANGED <<alarm_config, stats, is_running, loop_alive, now,
                   device_data_rows, alarm_log, last, probe, handling,
                   connection_open,
                   api_stats, api_last>>

\* after stop() start() and main() return and the process ends; the daemon
\* thread ends with it wherever it stands
ProcessExit ==
    /\ ~is_running
    /\ ~connection_open
    /\ reporter \in {"test", "sleep"}
    /\ reporter' = "killed"
    /\ UNCHANGED <<alarm_config, stats, is_running, loop_alive, now,
                   device_data_rows, alarm_log, last, probe, handling,
                   connection_open, last_report,
                   api_stats, api_last>>

NextLifecycle ==
    \/ Start
    \/ \E topic \in Topics, payload \in Payloads : Receive(topic, payload)
    \/ \E sink_ok \in BOOLEAN : SinkInsert(sink_ok)
    \/ CountInsert
    \/ CheckAlarm
    \/ Interrupt
    \/ ReporterTest
    \/ ReporterReport
    \/ ProcessExit

SpecLifecycle == InitShutdown /\ [][NextLifecycle]_vars

\* The scheduler runs the statistics thread, time.sleep(60) returns, the
\* handler goes on with the statement it stands at, and the main thread
\* returns from stop(); no message has to arrive and no signal has to come.
SpecLifecycleFair ==
    /\ InitShutdown
    /\ [][NextLifecycle]_vars
    /\ WF_vars(ReporterTest)
    /\ WF_vars(ReporterReport)
    /\ WF_vars(\E sink_ok \in BOOLEAN : SinkInsert(sink_ok))
    /\ WF_vars(CountInsert)
    /\ WF_vars(CheckAlarm)
    /\ WF_vars(ProcessExit)

(***************************************************************************)
(* The query API (flask_api_server.py): the routes of _setup_routes and    *)
(* the counters of self.api_stats.  A request is one action, from the      *)
(* route's first statement to its answer.  The data manager's queries      *)
(* catch their own exceptions and answer an empty result, so a route fails *)
(* only in int() of a query argument.                                      *)
(***************************************************************************)
\* self.api_stats['total_requests'] += 1 and the two other increments
count_request(st) == [st EXCEPT !.total_requests = @ + 1]
count_successful(st) == [st EXCEPT !.successful_requests = @ + 1]
count_failed(st) == [st EXCEPT !.failed_requests = @ + 1]

\* int(request.args.get(name, default)): arg is PyNone when the query has no
\* such argument, else its text (decimal digits, or text that is no number)
int_arg(arg, default) ==
    IF arg = PyNone THEN Returned(default) ELSE py_int(arg.v)

\* the values of ?limit=, ?page= and ?per_page=: absent, '5', '500', 'abc'
LimitArgs ==
    {PyNone, PyStr(<<"5">>), PyStr(<<"5","0","0">>), PyStr(<<"a","b","c">>)}
PageArgs == {PyNone, PyStr(<<"2">>), PyStr(<<"a","b","c">>)}
PerPageArgs == {PyNone, PyStr(<<"5","0","0">>)}
\* paths without a route: '/api/alarms' is listed by root() and not routed
UnroutedPaths == {"/api/alarms", "/api/statistics", "/favicon.ico"}

\* a request may be served: the requests that change the statistics are
\* bounded
ApiServing ==
    api_stats.total_requests + api_stats.failed_requests < MaxRequests

\* the answer of a route
Answer(path, code, data) == [path |-> path, code |-> code, data |-> data]
Success == [status |-> "success"]
Failure == [status |-> "error"]

\* GET /
Root ==
    /\ ApiServing
    /\ api_last' = Answer("/", 200, [status |-> "running"])
    /\ UNCHANGED api_stats
    /\ UNCHANGED receiver_vars

\* GET /api/health
HealthCheck ==
    /\ ApiServing
    /\ api_stats' = count_successful(count_request(api_stats))
    /\ api_last' = Answer("/api/health", 200, [status |-> "ok"])
    /\ UNCHANGED receiver_vars

\* GET /api/stats: the counters are read after total_requests and before
\* successful_requests is incremented
GetApiStats ==
    /\ ApiServing
    /\ \E counted \in {count_request(api_stats)} :
          /\ api_stats' = count_successful(counted)
          /\ api_last' =
                Answer("/api/stats", 200,
                       [status |-> "success",
                        total_api_requests |-> counted.total_requests,
                        successful_requests |-> counted.successful_requests,
                        failed_requests |-> counted.failed_requests])
    /\ UNCHANGED receiver_vars

\* GET /api/devices
GetDevices ==
    /\ ApiServing
    /\ api_stats' = count_successful(count_request(api_stats))
    /\ api_last' = Answer("/api/devices", 200, Success)
    /\ UNCHANGED receiver_vars

\* GET /api/data/latest?limit=
GetLatestData(limit_arg) ==
    /\ ApiServing
    /\ \E limit \in {int_arg(limit_arg, PyInt(10))} :
          IF limit.exc
          THEN /\ api_stats' = count_failed(count_request(api_stats))
               /\ api_last' = Answer("/api/data/latest", 500, Failure)
          ELSE /\ api_stats' = count_successful(count_request(api_stats))
               /\ api_last' =
                     Answer("/api/data/latest", 200,
                            [status |-> "success",
                             limit |-> IF limit.v.v > 100 THEN 100
                                       ELSE limit.v.v])
    /\ UNCHANGED receiver_vars

\* GET /api/data/history?page=&per_page=
GetHistoryData(page_arg, per_page_arg) ==
    /\ ApiServing
    /\ \E page \in {int_arg(page_arg, PyInt(1))},
          per_page \in {int_arg(per_page_arg, PyInt(20))} :
          IF page.exc \/ per_page.exc
          THEN /\ api_stats' = count_failed(count_request(api_stats))
               /\ api_last' = Answer("/api/data/history", 500, Failure)
          ELSE /\ api_stats' = count_successful(count_request(api_stats))
               /\ api_last' =
                     Answer("/api/data/history", 200,
                            [status |-> "success",
                             page |-> page.v.v,
                             per_page |-> IF per_page.v.v > 100 THEN 100
                                          ELSE per_page.v.v])
    /\ UNCHANGED receiver_vars

\* a path without a route: Flask answers through errorhandler(404)
NotFound(path) ==
    /\ ApiServing
    /\ api_stats' = count_failed(api_stats)
    /\ api_last' = Answer(path, 404, Failure)
    /\ UNCHANGED receiver_vars

InitApi ==
    /\ alarm_config \in {c \in AlarmConfigs :
                            c.enable_device_alarm /\ c.silent_mode}
    /\ Constructed
    /\ ApiConstructed
    /\ probe = NoProbe

NextApi ==
    \/ Root
    \/ HealthCheck
    \/ GetApiStats
    \/ GetDevices
    \/ \E limit_arg \in LimitArgs : GetLatestData(limit_arg)
    \/ \E page_arg \in PageArgs, per_page_arg \in PerPageArgs :
           GetHistoryData(page_arg, per_page_arg)
    \/ \E path \in UnroutedPaths : NotFound(path)

SpecApi == InitApi /\ [][NextApi]_vars

(***************************************************************************)
(* Properties.  They read the message handled last (last.msg, the sink's   *)
(* answer last.sink_ok, the statistics before it last.before) and what     *)
(* handle_message did with it (last.result).                               *)
(***************************************************************************)
\* the number of times method name was called for the last message
CallCount(name) ==
    Cardinality({i \in DOMAIN last.result.calls : last.result.calls[i] = name})

\* how much a counter grew while the last message was handled
Grew(counter) == last.result.stats[counter] - last.before[counter]

\* the payload is valid UTF-8
IsUtf8(payload) == \A i \in 1..Len(payload) : payload[i] # INVALID_BYTE

\* the last message: its topic resolves to a device / to none
LastResolves == DeviceIdOf[last.msg.topic] # PyNone
\* the last message: parse_data returns no record for its payload (None or an
\* empty dict)
LastHasNoRecord ==
    /\ IsUtf8(last.msg.payload)
    /\ DataDictOf[last.msg.payload] \in {PyNone, PyDict(EmptyDict)}
\* the last message: parse_data returns a record for its payload
LastHasRecord ==
    /\ IsUtf8(last.msg.payload)
    /\ DataDictOf[last.msg.payload] \notin {PyNone, PyDict(EmptyDict)}
\* is_alarm of the record of the last message's payload, PyNone when absent
LastIsAlarm == DictGet(DataDictOf[last.msg.payload].v, F_is_alarm, PyNone)

\* C1: handle_message never lets an error out: whatever the topic, the
\* payload (bytes that are not UTF-8 included) and the sink's answer, the
\* call returns normally and the subscription loop keeps delivering messages.
C1_NoErrorLeavesHandleMessage ==
    /\ is_running => loop_alive
    /\ last.handled => ~last.result.exc

\* C1, its case: a payload that is not UTF-8 is handled after a message that
\* was counted as an error, and the loop is still alive.
C1_Witness ==
    /\ last.handled
    /\ last.msg.payload = P_not_utf8
    /\ last.before.total_received = 1
    /\ last.before.total_errors = 1
    /\ Grew("total_errors") = 1
    /\ loop_alive

\* C2: a message whose topic matches no resolver rule, whatever its payload,
\* grows total_received by one, leaves total_processed and total_errors as
\* they were and does not reach the sink.
C2_UnrecognizedTopicIsNoError ==
    (last.handled /\ ~LastResolves) =>
        /\ Grew("total_received") = 1
        /\ Grew("total_processed") = 0
        /\ Grew("total_errors") = 0
        /\ CallCount("insert_device_data") = 0

\* C3: a malformed payload ('garbage data', a structured payload that does not
\* decode) on a topic that resolves grows total_errors by exactly one.
C3_MalformedPayloadIsOneError ==
    (/\ last.handled
     /\ LastResolves
     /\ last.msg.payload \in {P_garbage, P_json_bad}) =>
        Grew("total_errors") = 1

\* C4: when the topic resolves and parse_data returns no record for the
\* payload, the sink is not called, total_processed is unchanged, no row is
\* stored and no alarm handling takes place.
C4_NoRecordNoSinkNoAlarm ==
    (last.handled /\ LastResolves /\ LastHasNoRecord) =>
        /\ CallCount("insert_device_data") = 0
        /\ last.result.rows = <<>>
        /\ Grew("total_processed") = 0
        /\ CallCount("handle_alarm") = 0
        /\ last.result.alarms = <<>>

\* C4, its case: 'garbage data' on sleep_blanket/SB001/data was handled.
C4_Witness ==
    /\ last.handled
    /\ last.msg.topic = T_data_SB001
    /\ last.msg.payload = P_garbage
    /\ LastHasNoRecord
    /\ CallCount("parse_data") = 1

\* C5: when the topic resolves and the payload parses to a record, the sink's
\* insert is called exactly once; on success total_processed grows by one and
\* total_errors is unchanged, on failure total_errors grows by one and
\* total_processed is unchanged.
C5_RecordInsertedOnceAndCounted ==
    (last.handled /\ LastResolves /\ LastHasRecord) =>
        /\ CallCount("insert_device_data") = 1
        /\ last.sink_ok =>
              /\ Grew("total_processed") = 1
              /\ Grew("total_errors") = 0
              /\ Len(last.result.rows) = 1
        /\ ~last.sink_ok =>
              /\ Grew("total_errors") = 1
              /\ Grew("total_processed") = 0
              /\ last.result.rows = <<>>

\* C5, its case: a record with an alarm was refused by the sink.
C5_Witness ==
    /\ last.handled
    /\ last.msg.topic = T_data_SB001
    /\ last.msg.payload = P_alarm
    /\ ~last.sink_ok
    /\ Grew("total_errors") = 1

\* C6: no two alarms raised for the same device are less than
\* device_alarm_cooldown apart (an alarm at t=30 after one at t=0 is
\* suppressed).
C6_AlarmCooldown ==
    \A i, j \in DOMAIN alarm_log :
        (i < j /\ alarm_log[i].device_id = alarm_log[j].device_id) =>
            alarm_log[j].time - alarm_log[i].time
                >= alarm_config.device_alarm_cooldown

\* C7: no alarm is ever raised for a device of ignored_devices.
C7_IgnoredDeviceNeverRaised ==
    /\ \A i \in DOMAIN alarm_log :
           alarm_log[i].device_id \notin alarm_config.ignored_devices
    /\ (last.handled /\ DeviceIdOf[last.msg.topic] = PyStr(SB067)) =>
           last.result.alarms = <<>>

\* C7, its case: with alarms enabled, handle_alarm was called for SB067 at
\* t=60, after an earlier message.
C7_Witness ==
    /\ last.handled
    /\ alarm_config.enable_device_alarm
    /\ last.msg.topic = T_data_SB067
    /\ CallCount("handle_alarm") = 1
    /\ last.before.total_received >= 1
    /\ last.time = 60

\* C8: with enable_device_alarm false no alarm is ever raised, and a message
\* with is_alarm = 1 still goes to the sink once and is counted by the
\* sink's answer.
C8_DisabledPolicyRaisesNothing ==
    ~alarm_config.enable_device_alarm =>
        /\ alarm_log = <<>>
        /\ (last.handled /\ CallCount("handle_alarm") > 0) =>
              /\ last.result.alarms = <<>>
              /\ CallCount("insert_device_data") = 1
              /\ Len(last.result.rows) = (IF last.sink_ok THEN 1 ELSE 0)
              /\ Grew("total_processed") = (IF last.sink_ok THEN 1 ELSE 0)
              /\ Grew("total_errors") = (IF last.sink_ok THEN 0 ELSE 1)

\* C8, its case: with the policy disabled, a message with is_alarm = 1 was
\* stored and handle_alarm was called.
C8_Witness ==
    /\ ~alarm_config.enable_device_alarm
    /\ last.handled
    /\ last.msg.topic = T_data_SB001
    /\ last.msg.payload = P_alarm
    /\ CallCount("handle_alarm") = 1
    /\ last.sink_ok
    /\ Grew("total_processed") = 1

C10_DataTopicResolvesToSegment ==
    (probe.fn = "extract_device_id" /\ probe.done) =>
        \A d \in Segments :
            (/\ probe.arg = DataTopic(d)
             /\ d # <<>>
             /\ \A i \in 1..Len(d) : d[i] # "/") =>
                probe.ret = PyStr(d)

\* C10, its case: the topic sleep_blanket/d-/data was resolved to 'd-'.
C10_Witness ==
    /\ probe.fn = "extract_device_id"
    /\ probe.done
    /\ probe.arg = DataTopic(<<"d", "-">>)
    /\ probe.ret = PyStr(<<"d", "-">>)


\* the text p occurs in the topic s
Occurs(p, s) ==
    \E i \in 0..(Len(s) - Len(p)) : \A k \in 1..Len(p) : s[i + k] = p[k]

\* the topic s holds 'sleep_blanket/', then one or more characters other than
\* '/', then '/data' (rule 1 of the resolver)
SatisfiesRule1(s) ==
    \E i \in 0..Len(s), n \in 1..Len(s) :
        /\ i + Len(RE_PREFIX) + n + Len(RE_SUFFIX) <= Len(s)
        /\ \A k \in 1..Len(RE_PREFIX) : s[i + k] = RE_PREFIX[k]
        /\ \A k \in 1..n : s[i + Len(RE_PREFIX) + k] # "/"
        /\ \A k \in 1..Len(RE_SUFFIX) :
               s[i + Len(RE_PREFIX) + n + k] = RE_SUFFIX[k]

\* C11: a topic that does not satisfy rule 1 resolves to GENERAL_DEVICE when
\* it contains 'device/sleep_blanket' anywhere, else to MONITOR_SENSOR when it
\* contains 'sensors/sleep_monitor' anywhere, else to None.
C11_LiteralPathsMatchBySubstring ==
    (probe.fn = "extract_device_id" /\ probe.done
     /\ ~SatisfiesRule1(probe.arg)) =>
        /\ Occurs(DEVICE_SLEEP_BLANKET, probe.arg) =>
               probe.ret = PyStr(GENERAL_DEVICE)
        /\ (~Occurs(DEVICE_SLEEP_BLANKET, probe.arg)
            /\ Occurs(SENSORS_SLEEP_MONITOR, probe.arg)) =>
               probe.ret = PyStr(MONITOR_SENSOR)
        /\ (~Occurs(DEVICE_SLEEP_BLANKET, probe.arg)
            /\ ~Occurs(SENSORS_SLEEP_MONITOR, probe.arg)) =>
               probe.ret = PyNone

\* C11, its case: 'device/sleep_blanket/extra' was resolved to GENERAL_DEVICE.
C11_Witness ==
    /\ probe.fn = "extract_device_id"
    /\ probe.done
    /\ probe.arg = DEVICE_SLEEP_BLANKET \o EXTRA
    /\ probe.ret = PyStr(GENERAL_DEVICE)

\* parse_data was applied to a payload joined from tokens
ParsedTokens == probe.fn = "parse_data" /\ probe.done

\* the payload probed holds the token tk
HasToken(tk) == \E i \in DOMAIN probe.tokens : probe.tokens[i] = tk

\* C12: every delimited payload that parses to a record and holds a token
\* 'RAW:N/A' gives a record whose raw_value is absent, whatever the other
\* tokens are (a repeated RAW key included) and wherever the token stands.
C12_RawNotAvailableIsAbsent ==
    (ParsedTokens /\ HasToken(TK_raw_na) /\ probe.ret # PyNone) =>
        DictGet(probe.ret.v, F_raw_value, PyNone) = PyNone

\* the delimited payload holds the token tk: tk stands between the start or a
\* ', ' and the end or a ', '
HoldsToken(payload, tk) ==
    \E i \in 0..(Len(payload) - Len(tk)) :
        /\ \A k \in 1..Len(tk) : payload[i + k] = tk[k]
        /\ \/ i = 0
           \/ i >= 2 /\ payload[i - 1] = "," /\ payload[i] = " "
        /\ \/ i + Len(tk) = Len(payload)
           \/ /\ i + Len(tk) + 2 <= Len(payload)
              /\ payload[i + Len(tk) + 1] = ","
              /\ payload[i + Len(tk) + 2] = " "

\* the last message's payload holds the token tk
LastHolds(tk) == HoldsToken(last.msg.payload, tk)

\* the last message's payload is joined from tokens of the delimited format
LastIsDelimited == \A p \in StructuredPayloads : last.msg.payload # p

\* field of the record handed to the sink for the last message, PyNone when
\* the record has no such key
LastField(field) == DictGet(last.result.data_dict.v, field, PyNone)

\* C13: a delimited payload with a value of raw, rms or move that is not of
\* its numeric type ('RAW:abc', 'RMS:1.2.3', 'MOVE:-5') still parses: on a
\* topic that resolves the record goes to the sink once, a succeeding insert
\* counts it as processed and not as an error, the field of the bad value is
\* absent (when no other token gives it a value) and the other tokens' fields
\* keep their values.
C13_BadNumberDropsOnlyItsField ==
    (/\ last.handled
     /\ LastResolves
     /\ IsUtf8(last.msg.payload)
     /\ LastIsDelimited
     /\ LastHolds(TK_raw_abc) \/ LastHolds(TK_rms_two_dots)
        \/ LastHolds(TK_move_minus)) =>
        /\ CallCount("insert_device_data") = 1
        /\ last.sink_ok =>
              Grew("total_processed") = 1 /\ Grew("total_errors") = 0
        /\ (LastHolds(TK_raw_abc) /\ ~LastHolds(TK_raw_5)) =>
              LastField(F_raw_value) = PyNone
        /\ (LastHolds(TK_rms_two_dots) /\ ~LastHolds(TK_rms)) =>
              LastField(F_rms_value) = PyNone
        /\ LastHolds(TK_move_minus) => LastField(F_movement_count) = PyNone
        /\ (LastHolds(TK_alarm) /\ ~LastHolds(TK_alarm_x)) =>
              LastField(F_is_alarm) = PyInt(1)

\* the field names of the canonical record
CanonicalFields ==
    {F_raw_value, F_rms_value, F_threshold_value, F_state, F_movement_count,
     F_is_connected, F_is_alarm}

\* the tokens without the one at position i
WithoutToken(tokens, i) ==
    SubSeq(tokens, 1, i - 1) \o SubSeq(tokens, i + 1, Len(tokens))

\* parse_data was applied to a payload of the delimited format
ParsedDelimited ==
    ParsedTokens /\ \A p \in StructuredPayloads : probe.arg # p

\* C14: the record parse_data returns for a delimited payload has canonical
\* field names only, and it is the record of the payload without any one of
\* its tokens of unrecognized key ('FOO:1', 'FOO:N/A').
C14_UnrecognizedKeysIgnored ==
    ParsedDelimited =>
        /\ probe.ret # PyNone => DOMAIN probe.ret.v \subseteq CanonicalFields
        /\ \A i \in DOMAIN probe.tokens :
               probe.tokens[i] \in {TK_foo, TK_foo_na} =>
                   parse_data(Join(WithoutToken(probe.tokens, i))) = probe.ret

\* the delimited payloads without any recognized key: joined from tokens of
\* unrecognized key and tokens without ':' only, the empty payload included
UnrecognizedPayloads ==
    {Join(tokens) :
        tokens \in UNION {[1..n -> {TK_foo, TK_foo_na, P_garbage}] :
                             n \in 0..MaxTokens}}

\* C15: a delimited payload without any recognized key is a parse failure:
\* the sink is not called for the message and no row is stored.
C15_NoRecognizedKeyNeverStored ==
    (last.handled /\ last.msg.payload \in UnrecognizedPayloads) =>
        /\ CallCount("insert_device_data") = 0
        /\ last.result.rows = <<>>

\* the first character of the payload that is not whitespace, "" when there
\* is none
FirstNonWhitespace(payload) ==
    LET Marks == {i \in 1..Len(payload) : payload[i] \notin WhiteSpace}
    IN IF Marks = {} THEN ""
       ELSE payload[CHOOSE i \in Marks : \A j \in Marks : i <= j]

\* the payload decoded as a structured document: its fields, PyNone when the
\* decoding fails
StructuredRecord(payload) ==
    IF json_loads(payload).exc THEN PyNone ELSE json_loads(payload).v

\* C16: every payload whose first character that is not whitespace is '{'
\* parses to the record of the structured document it holds, also when
\* whitespace precedes the '{', and to no record when the document does not
\* decode: the delimited parser is never tried on it.
C16_BraceSelectsStructuredFormat ==
    (probe.fn = "parse_data" /\ probe.done
     /\ FirstNonWhitespace(probe.arg) = "{") =>
        probe.ret = StructuredRecord(probe.arg)

\* the type tags of a whole number, of a decimal number, and of absence
IsIntOrAbsent(x) == x.t \in {"int", "none"}
IsNumberOrAbsent(x) == x.t \in {"int", "float", "none"}

\* the five optional fields of a record or of a row are each a number of
\* their type or absent
OptionalFieldsTyped(raw, rms, th, state, move) ==
    /\ IsIntOrAbsent(raw)
    /\ IsNumberOrAbsent(rms)
    /\ IsNumberOrAbsent(th)
    /\ IsIntOrAbsent(state)
    /\ IsIntOrAbsent(move)

\* C17: every record handed to the sink, and every row stored, has each of
\* raw_value, rms_value, threshold_value, state and movement_count as a number
\* of its type or absent, never as text; and a field for which a delimited
\* payload holds no token is absent in the row, not zero and not ''.
C17_OptionalFieldsTypedOrAbsent ==
    (last.handled /\ CallCount("insert_device_data") = 1) =>
        /\ OptionalFieldsTyped(LastField(F_raw_value), LastField(F_rms_value),
                               LastField(F_threshold_value),
                               LastField(F_state),
                               LastField(F_movement_count))
        /\ \A i \in DOMAIN last.result.rows :
               LET row == last.result.rows[i]
               IN /\ OptionalFieldsTyped(row.raw_value, row.rms_value,
                                         row.threshold_value, row.state,
                                         row.movement_count)
                  /\ (LastIsDelimited
                      /\ last.msg.payload \notin FullPayloads) =>
                        /\ (\A tk \in {TK_raw_na, TK_raw_5, TK_raw_abc} :
                               ~LastHolds(tk)) => row.raw_value = PyNone
                        /\ (\A tk \in {TK_rms, TK_rms_two_dots} :
                               ~LastHolds(tk)) => row.rms_value = PyNone
                        /\ (\A tk \in {TK_move_minus, TK_move_na} :
                               ~LastHolds(tk)) => row.movement_count = PyNone
                        /\ row.threshold_value = PyNone
                        /\ row.state = PyNone

\* the record of 'RAW:3000, RMS:1800.50, TH:2000.00, STATE:1, MOVE:5,
\* CONNECTED:1, ALARM:0' stamped at time t, field by field
FullRecordAt(t) ==
    [k \in CanonicalFields \cup {F_timestamp} |->
        CASE k = F_raw_value -> PyInt(3000)
          [] k = F_rms_value -> PyFloat(18005, 1)
          [] k = F_threshold_value -> PyFloat(2000, 0)
          [] k = F_state -> PyInt(1)
          [] k = F_movement_count -> PyInt(5)
          [] k = F_is_connected -> PyInt(1)
          [] k = F_is_alarm -> PyInt(0)
          [] k = F_timestamp -> PyTime(t)]

\* C18: a message on sleep_blanket/{d}/data whose delimited payload carries
\* valid values for RAW, RMS, TH, STATE, MOVE, CONNECTED and ALARM:0, keys in
\* any letter case, is handed to the sink exactly once, for device d, as the
\* record of the values sent under the canonical field names; a succeeding
\* sink stores that row, total_processed grows by one, total_errors is
\* unchanged, and handle_alarm is not called.
C18_FullPayloadEndToEnd ==
    \A d \in {SB001, SB067} :
        (/\ last.handled
         /\ last.msg.topic = DataTopic(d)
         /\ last.msg.payload \in FullPayloads) =>
            /\ CallCount("insert_device_data") = 1
            /\ last.result.device_id = PyStr(d)
            /\ last.result.data_dict = PyDict(FullRecordAt(last.time))
            /\ CallCount("handle_alarm") = 0
            /\ last.result.alarms = <<>>
            /\ last.sink_ok =>
                  /\ Grew("total_processed") = 1
                  /\ Grew("total_errors") = 0
                  /\ last.result.rows =
                        <<[device_id |-> d,
                           raw_value |-> PyInt(3000),
                           rms_value |-> PyFloat(18005, 1),
                           threshold_value |-> PyFloat(2000, 0),
                           state |-> PyInt(1),
                           movement_count |-> PyInt(5),
                           is_connected |-> PyInt(1),
                           is_alarm |-> PyInt(0),
                           timestamp |-> PyTime(last.time)]>>

\* C18, its case: the payload with keys in mixed case arrived on
\* sleep_blanket/SB001/data and the sink stored its row.
C18_Witness ==
    /\ last.handled
    /\ last.msg.topic = T_data_SB001
    /\ last.msg.payload = P_full_mixed
    /\ last.sink_ok
    /\ Len(last.result.rows) = 1
    /\ last.result.rows[1].rms_value = PyFloat(18005, 1)

\* stop() has run
Stopped == ~is_running /\ ~connection_open

\* C19: after stop() no message is half-processed: the rows the sink has
\* stored are as many as total_processed counts, whenever in the handling of
\* a message the shutdown signal arrived.
C19_ShutdownLeavesNothingHalfProcessed ==
    Stopped => device_data_rows = stats.total_processed

\* C20: whenever the record handed to the sink carries no is_connected value
\* (no such key, as after 'CONNECTED:N/A' or without a CONNECTED token, or an
\* explicit null) the stored row has is_connected = 1, and whenever it carries
\* no is_alarm value the stored row has is_alarm = 0.
C20_BooleanDefaultsAtSink ==
    last.handled =>
        \A i \in DOMAIN last.result.rows :
            /\ LastField(F_is_connected) = PyNone =>
                   last.result.rows[i].is_connected = PyInt(1)
            /\ LastField(F_is_alarm) = PyNone =>
                   last.result.rows[i].is_alarm = PyInt(0)

\* the segments d for which 'sleep_blanket/' d '/data' occurs in the topic s
\* with d one or more characters other than '/'
Rule1Segments(s) ==
    {SubSeq(s, p[1] + Len(RE_PREFIX) + 1, p[1] + Len(RE_PREFIX) + p[2]) :
        p \in {q \in (0..Len(s)) \X (1..Len(s)) :
                 /\ q[1] + Len(RE_PREFIX) + q[2] + Len(RE_SUFFIX) <= Len(s)
                 /\ \A k \in 1..Len(RE_PREFIX) : s[q[1] + k] = RE_PREFIX[k]
                 /\ \A k \in 1..q[2] : s[q[1] + Len(RE_PREFIX) + k] # "/"
                 /\ \A k \in 1..Len(RE_SUFFIX) :
                        s[q[1] + Len(RE_PREFIX) + q[2] + k] = RE_SUFFIX[k]}}

\* C21: the rules are tried in order and the first match wins: a topic that
\* satisfies rule 1 and also contains a literal path resolves to its rule-1
\* segment, never to a sentinel; a topic that contains both literal paths and
\* does not satisfy rule 1 resolves to GENERAL_DEVICE, never to MONITOR_SENSOR.
C21_FirstMatchingRuleWins ==
    (probe.fn = "extract_device_id" /\ probe.done) =>
        /\ (SatisfiesRule1(probe.arg)
            /\ (Occurs(DEVICE_SLEEP_BLANKET, probe.arg)
                \/ Occurs(SENSORS_SLEEP_MONITOR, probe.arg))) =>
               /\ probe.ret \in {PyStr(d) : d \in Rule1Segments(probe.arg)}
               /\ probe.ret \notin {PyStr(GENERAL_DEVICE), PyStr(MONITOR_SENSOR)}
        /\ (~SatisfiesRule1(probe.arg)
            /\ Occurs(DEVICE_SLEEP_BLANKET, probe.arg)
            /\ Occurs(SENSORS_SLEEP_MONITOR, probe.arg)) =>
               probe.ret = PyStr(GENERAL_DEVICE)

\* C21, its case: 'device/sleep_blanket/X/data', which holds a literal path
\* and a match of the pattern, was resolved to X.
C21_Witness ==
    /\ probe.fn = "extract_device_id" /\ probe.done
    /\ probe.arg = DEVICE_THEN_DATA
    /\ probe.ret = PyStr(<<"X">>)

\* the topic s is exactly 'sleep_blanket/', one or more characters other than
\* '/', and '/data', with nothing before and nothing after
IsExactDataTopic(s) ==
    /\ Len(s) > Len(RE_PREFIX) + Len(RE_SUFFIX)
    /\ \A k \in 1..Len(RE_PREFIX) : s[k] = RE_PREFIX[k]
    /\ \A k \in 1..Len(RE_SUFFIX) :
           s[Len(s) - Len(RE_SUFFIX) + k] = RE_SUFFIX[k]
    /\ \A k \in (Len(RE_PREFIX) + 1)..(Len(s) - Len(RE_SUFFIX)) : s[k] # "/"

\* C22: rule 1 yields a device id only for topics that are exactly
\* 'sleep_blanket/{segment}/data': a topic with further components before or
\* after, such as 'x/sleep_blanket/SB001/data' or
\* 'sleep_blanket/SB001/data/extra', is not resolved to the segment by rule 1.
C22_Rule1OnlyForExactTopics ==
    (probe.fn = "extract_device_id" /\ probe.done
     /\ probe.ret # PyNone
     /\ probe.ret \notin {PyStr(GENERAL_DEVICE), PyStr(MONITOR_SENSOR)}) =>
        IsExactDataTopic(probe.arg)

\* C23: an alarm that is raised is always written to the log and is printed
\* to the console exactly when silent_mode is false; silent_mode never
\* changes whether the alarm is raised.
C23_SilentModeOnlyMutesConsole ==
    /\ \A i \in DOMAIN alarm_log :
           alarm_log[i].printed = ~alarm_config.silent_mode
    /\ (last.handled /\ CallCount("handle_alarm") = 1
        /\ alarm_config.enable_device_alarm
        /\ DeviceIdOf[last.msg.topic].v \notin alarm_config.ignored_devices) =>
           last.result.alarms =
               <<[device_id |-> DeviceIdOf[last.msg.topic].v,
                  printed |-> ~alarm_config.silent_mode]>>

\* C23, its case: with silent_mode true an alarm of SB001 was raised and
\* logged without being printed.
C23_Witness ==
    /\ alarm_config.enable_device_alarm /\ alarm_config.silent_mode
    /\ last.handled
    /\ last.msg.topic = T_data_SB001
    /\ last.msg.payload = P_alarm
    /\ last.result.alarms = <<[device_id |-> SB001, printed |-> FALSE]>>
    /\ Len(alarm_log) >= 1

C25_TimestampIsTheHandlersClock ==
    (last.handled /\ CallCount("insert_device_data") = 1) =>
        /\ LastField(F_timestamp) = PyTime(last.time)
        /\ \A i \in DOMAIN last.result.rows :
               last.result.rows[i].timestamp = PyTime(last.time)
        /\ last.result.stats.last_message_time = PyTime(last.time)

\* C25, its case: '{"timestamp": "x", "is_alarm": 1}' was handled at t=30 and
\* stored with the timestamp 30.
C25_Witness ==
    /\ last.handled
    /\ last.msg.topic = T_data_SB001
    /\ last.msg.payload = P_json_timestamp
    /\ DataDictOf[P_json_timestamp].v[F_timestamp] = PyStr(<<"x">>)
    /\ last.time = 30
    /\ Len(last.result.rows) = 1
    /\ last.result.rows[1].timestamp = PyTime(30)

\* the three message counters of self.stats
MessageCounters == {"total_received", "total_processed", "total_errors"}

\* C26: every call of handle_message adds exactly one to total_received and
\* sets last_message_time to the time of the call, and adds one to at most
\* one of total_processed and total_errors; in every reachable state
\* total_processed + total_errors <= total_received; no counter ever
\* decreases, and nothing but handle_message changes the statistics.
C26_CountersAccountForEveryMessage ==
    /\ [](stats.total_processed + stats.total_errors <= stats.total_received)
    /\ [][/\ \A c \in MessageCounters : stats'[c] >= stats[c]
          /\ last' # last =>
                /\ stats'.total_received = stats.total_received + 1
                /\ stats'.last_message_time = PyTime(now)
                /\ (stats'.total_processed - stats.total_processed)
                     + (stats'.total_errors - stats.total_errors) \in {0, 1}
                /\ stats'.start_time = stats.start_time
          /\ last' = last => stats' = stats]_vars

\* C26, its case: two messages were handled, one stored and one counted as an
\* error.
C26_Witness ==
    /\ last.handled
    /\ stats.total_received = 2
    /\ stats.total_processed = 1
    /\ stats.total_errors = 1
    /\ stats.last_message_time = PyTime(last.time)

\* C27: the statistics thread only reads: no step of it changes self.stats;
\* and handle_message never waits for it: wherever the thread stands, the
\* handler's next statement can run, and a call in progress runs to its end.
C27_ReporterReadsOnlyAndNeverBlocks ==
    /\ [][(reporter' # reporter \/ last_report' # last_report) =>
             stats' = stats]_vars
    /\ []((loop_alive /\ handling.pc = "insert") =>
             ENABLED (\E sink_ok \in BOOLEAN : SinkInsert(sink_ok)))
    /\ []((loop_alive /\ handling.pc = "count") => ENABLED CountInsert)
    /\ []((loop_alive /\ handling.pc = "alarm") => ENABLED CheckAlarm)
    /\ []((loop_alive /\ handling.pc = "idle"
           /\ stats.total_received < MaxMsgs) =>
             ENABLED (\E topic \in Topics, payload \in Payloads :
                         Receive(topic, payload)))

\* C27, its case: the statistics line was written while a message was being
\* handled, after it was received and before it was counted, and the handler
\* then ran to its end and counted it.
C27_Witness ==
    /\ last_report.emitted
    /\ handling.pc = "idle"
    /\ last_report.total_received = stats.total_received
    /\ last_report.total_processed + last_report.total_errors
         < stats.total_processed + stats.total_errors
    /\ stats.total_processed + stats.total_errors = stats.total_received

\* the statistics line written last was written after stop() and shows the
\* counters as they stand
FinalSummaryEmitted ==
    /\ last_report.emitted
    /\ ~last_report.running
    /\ last_report.total_received = stats.total_received
    /\ last_report.total_processed = stats.total_processed
    /\ last_report.total_errors = stats.total_errors

\* C28: after the shutdown signal and stop(), a summary of the counters that
\* reflects every message handled before the stop is eventually emitted.
C28_FinalSummaryAfterStop ==
    Stopped ~> FinalSummaryEmitted

\* C29: a payload that is not valid UTF-8 is counted as one error, with
\* total_processed unchanged, whatever its topic, and reaches neither
\* extract_device_id nor parse_data nor the sink: decoding is the only step
\* of its handling.
C29_UndecodablePayloadIsOneError ==
    (last.handled /\ ~IsUtf8(last.msg.payload)) =>
        /\ Grew("total_received") = 1
        /\ Grew("total_errors") = 1
        /\ Grew("total_processed") = 0
        /\ last.result.calls = <<"decode">>
        /\ last.result.rows = <<>>
        /\ last.result.alarms = <<>>

\* C29, its case: a payload that is not UTF-8 arrived on a topic that
\* resolves to no device and was counted as an error.
C29_Witness ==
    /\ last.handled
    /\ last.msg.payload = P_not_utf8
    /\ last.msg.topic = T_status_SB001
    /\ DeviceIdOf[T_status_SB001] = PyNone
    /\ Grew("total_errors") = 1
    /\ stats.total_processed = 0

\* C30: within one message handle_alarm comes only after insert_device_data
\* has returned, and it does not depend on the sink's answer: a record with
\* is_alarm = 1 that the sink refused is counted as an error and still has its
\* alarm evaluated, and raised when the policy does not suppress it.
C30_AlarmFollowsSinkWhateverItsAnswer ==
    last.handled =>
        /\ \A i \in DOMAIN last.result.calls :
               last.result.calls[i] = "handle_alarm" =>
                   \E k \in 1..(i - 1) :
                       last.result.calls[k] = "insert_device_data"
        /\ (LastResolves /\ LastHasRecord /\ LastIsAlarm = PyInt(1)) =>
               /\ CallCount("handle_alarm") = 1
               /\ ~last.sink_ok => Grew("total_errors") = 1
               /\ (alarm_config.enable_device_alarm
                   /\ DeviceIdOf[last.msg.topic].v
                        \notin alarm_config.ignored_devices) =>
                      Len(last.result.alarms) = 1

\* C30, its case: the sink refused a record with is_alarm = 1 of SB001, the
\* message was counted as an error and the alarm was raised.
C30_Witness ==
    /\ last.handled
    /\ last.msg.topic = T_data_SB001
    /\ last.msg.payload = P_alarm
    /\ LastIsAlarm = PyInt(1)
    /\ ~last.sink_ok
    /\ last.result.rows = <<>>
    /\ Grew("total_errors") = 1
    /\ last.result.calls[Len(last.result.calls)] = "handle_alarm"
    /\ last.result.alarms # <<>>

\* the last message was delivered for 'sleep_blanket/+/status' or
\* 'sleep_blanket/+/alarm'
LastOnStatusOrAlarmFilter ==
    last.msg.topic \in StatusFilterTopics \cup AlarmFilterTopics

\* C31: a message delivered for the filter 'sleep_blanket/+/status' or
\* 'sleep_blanket/+/alarm' resolves to no device id, never reaches the sink,
\* never raises an alarm, and only increments total_received; a stored row
\* comes only from a topic of 'sleep_blanket/+/data', 'device/sleep_blanket'
\* or 'sensors/sleep_monitor'.
C31_StatusAndAlarmTopicsOnlyCounted ==
    last.handled =>
        /\ LastOnStatusOrAlarmFilter =>
              /\ DeviceIdOf[last.msg.topic] = PyNone
              /\ CallCount("insert_device_data") = 0
              /\ CallCount("handle_alarm") = 0
              /\ last.result.rows = <<>>
              /\ last.result.alarms = <<>>
              /\ Grew("total_received") = 1
              /\ Grew("total_processed") = 0
              /\ Grew("total_errors") = 0
        /\ last.result.rows # <<>> =>
              last.msg.topic \in DataFilterTopics
                  \cup {DEVICE_SLEEP_BLANKET, SENSORS_SLEEP_MONITOR}

\* C32: in the query API's statistics, after any sequence of requests,
\* successful_requests + failed_requests <= total_requests, and every
\* request that is counted adds one to total_requests and one to exactly one
\* of successful_requests and failed_requests.
C32_ApiRequestStatistics ==
    /\ [](api_stats.successful_requests + api_stats.failed_requests
            <= api_stats.total_requests)
    /\ [][api_stats'.total_requests # api_stats.total_requests =>
             /\ api_stats'.total_requests = api_stats.total_requests + 1
             /\ \/ /\ api_stats'.successful_requests
                        = api_stats.successful_requests + 1
                   /\ api_stats'.failed_requests = api_stats.failed_requests
                \/ /\ api_stats'.failed_requests
                        = api_stats.failed_requests + 1
                   /\ api_stats'.successful_requests
                        = api_stats.successful_requests]_vars

=============================================================================
